---- MODULE Spec2Model ----
(***************************************************************************)
(* Party-game session manager: GameManager (registry) and Game (one room's *)
(* state machine) of src/unnamed/part_004, driven by the socket handlers   *)
(* of src/server/index.js.                                                 *)
(*                                                                         *)
(* A Game is a record; every method of the class is an operator from a     *)
(* game record to the game record after the call.  Two transient fields    *)
(* thread a handler's side results through the calls it makes:             *)
(*   ev    - the notifications emitted so far by the running handler       *)
(*   threw - the handler raised a TypeError (an uncaught exception ends    *)
(*           the Node process)                                             *)
(* Math.random outcomes are inputs of the actions, drawn from small sets.  *)
(***************************************************************************)
EXTENDS Integers, Sequences, FiniteSets, TLC

\* ---------------------------------------------------------------- bounds
MaxSockets == 3        \* socket.io connections of one run
MaxIds == 4            \* participants allocated in one run (uuid draws)
MaxLobbyPlayers == 2   \* participants of a room in the lobby specification
MaxCreates == 1        \* create-game commands in one run
MaxPending == 2        \* setTimeout callbacks pending at once in one room
MaxRoundsInput == 2    \* largest maxRounds a create-game command asks for
ShuffleChoices == 2    \* outcomes of one Math.random shuffle that are explored
MaxStrays == 1         \* commands in one run that the clients' pages do not send
PromptDrawChoices == 1 \* outcomes of one random prompt draw that are explored
PlayedPlayers == 3     \* participants of a room whose rounds are played out
MaxPlayedRounds == 3   \* largest maxRounds of a game whose rounds are played out
MaxRoomPlayers == 6    \* participants of a room when prompts are assigned
BuildPlayers == 4      \* participants of a room when match lists are built
BuildPrompts == 2      \* prompt ids the answers of that room carry
CrowdFrom == 6         \* fewest participants of a room that is filled up
MaxCrowdIds == 10      \* participants allocated in one run of that room
MaxRoomsCreates == 2   \* create-game commands of one run with two room codes
MaxRoomsIds == 4       \* participants allocated in one run with two room codes
FlatPlayers == 3       \* participants of a room scored by flat vote counts
MaxFloodAnswers == 4   \* answers of one run of that room that no page would send

\* ------------------------------------------------------- program constants
MaxPlayers == 8
MinPlayersStandard == 2
MinPlayersDebug == 1
DefaultMaxRounds == 3
FallbackPromptCount == 15
MinValidPrompts == 5
MaxKeptPrompts == 50
BaseValueRound1 == 1000
BaseValueLater == 2000
SweepBonusRound1 == 500
SweepBonusLater == 1000
MedalValue == 500

RoomCodes == {"AAAA"}
Names == {"Alice", "Bob"}
NoAnswerText == "(No answer submitted)"
BotAnswerText == "Funny answer!"
HumanAnswerText == "x"
GhostId == 0           \* an id no participant ever has
NoSocket == 0          \* socketId null (bots)

VARIABLES
    games,             \* GameManager.games: roomCode -> Game
    playerSocketMap,   \* GameManager.playerSocketMap: socketId -> [roomCode, playerId]
    openSockets,       \* socket.io connections that have not disconnected yet
    nextId,            \* next fresh uuid
    armsGameplayTimers,\* build: does startTimer arm the 'answer' and 'vote' deadlines
    creates,           \* create-game commands so far
    strays,            \* commands so far that the clients' pages do not send
    out,               \* notifications emitted by the last handler
    last,              \* the command, deadline or callback the last handler served
    crashed            \* an uncaught exception ended the process

vars == <<games, playerSocketMap, openSockets, nextId,
          armsGameplayTimers, creates, strays, out, last, crashed>>

\* --------------------------------------------------------------- helpers
Range(s) == {s[i] : i \in DOMAIN s}

Min(S) == CHOOSE x \in S : \A y \in S : x <= y

EmptyMap == [x \in {} |-> 0]

MapSet(f, k, v) == [x \in (DOMAIN f) \cup {k} |-> IF x = k THEN v ELSE f[x]]

MapDelete(f, k) == [x \in (DOMAIN f) \ {k} |-> f[x]]

RECURSIVE SeqSum(_)
SeqSum(s) == IF s = <<>> THEN 0 ELSE Head(s) + SeqSum(Tail(s))

\* A shuffle outcome: the sequence rotated left by k places.
Rotate(s, k) ==
    IF Len(s) = 0 THEN s
    ELSE [i \in 1..Len(s) |-> s[((i - 1 + k) % Len(s)) + 1]]

\* The elements of a finite set of integers or pairs of integers in Map
\* iteration order, abstracted to increasing order.
RECURSIVE SortedSeq(_)
SortedSeq(S) ==
    IF S = {} THEN <<>>
    ELSE LET m == CHOOSE x \in S : \A y \in S :
                      \/ x[1] < y[1]
                      \/ (x[1] = y[1] /\ x[2] <= y[2])
         IN <<m>> \o SortedSeq(S \ {m})

Ev(to, type, arg) == [to |-> to, type |-> type, arg |-> arg]

Emit(g, type, arg) == [g EXCEPT !.ev = Append(@, Ev(NoSocket, type, arg))]

\* ------------------------------------------------------------------ Game
\* The names handleTimerEnd acts on and startTimer is called with.
TimerNames == {"answer", "vote", "intermission", "tiebreaker"}

NewGame(hostSocketId, maxRoundsSetting, debugMode) ==
    [ hostSocketId |-> hostSocketId,
      debugMode |-> debugMode,
      maxRounds |-> IF maxRoundsSetting = 0 THEN DefaultMaxRounds ELSE maxRoundsSetting,
      players |-> <<>>,
      botsCount |-> 0,
      state |-> "waiting",
      round |-> 0,
      prompts |-> <<>>,
      currentPrompts |-> <<>>,
      answers |-> EmptyMap,
      votes |-> EmptyMap,
      votingMatches |-> <<>>,
      currentMatchIndex |-> 0,
      timers |-> {},
      intervals |-> [n \in TimerNames |-> 0],
      timeouts |-> <<>>,
      botTasks |-> {},
      fetching |-> 0,
      ev |-> <<>>,
      threw |-> FALSE ]

HasPlayer(g, playerId) == \E i \in DOMAIN g.players : g.players[i].id = playerId

PlayerIndex(g, playerId) ==
    Min({i \in DOMAIN g.players : g.players[i].id = playerId})

HasPlayerNamed(g, name) == \E i \in DOMAIN g.players : g.players[i].name = name

\* Array.find: the first participant carrying the name.
GetPlayerByName(g, name) ==
    g.players[Min({i \in DOMAIN g.players : g.players[i].name = name})]

GameAddPlayer(g, id, name, socketId, isBot) ==
    [g EXCEPT !.players = Append(@,
        [ id |-> id, name |-> name, socketId |-> socketId, score |-> 0,
          isConnected |-> TRUE, isBot |-> isBot ])]

IsFinalRound(g) == g.round >= g.maxRounds

\* timers holds the names that have an entry in the Map; intervals counts, per
\* name, the setInterval callbacks that have not been cleared. clearTimer
\* clears the interval of the entry it finds and deletes the entry.
ClearTimer(g, timerName) ==
    [g EXCEPT !.intervals[timerName] = IF timerName \in g.timers THEN @ - 1 ELSE @,
              !.timers = @ \ {timerName}]

Arm(g, timerName) ==
    Emit([g EXCEPT !.timers = @ \cup {timerName}, !.intervals[timerName] = @ + 1],
         "timer-start", timerName)

\* startTimer without the clearTimer call it begins with.
StartTimerNoCancel(g, timerName) ==
    IF timerName # "intermission" /\ ~armsGameplayTimers
    THEN g
    ELSE Arm(g, timerName)

StartTimer(g, timerName) ==
    LET g1 == ClearTimer(g, timerName)
    IN IF timerName # "intermission" /\ ~armsGameplayTimers
       THEN g1
       ELSE Arm(g1, timerName)

\* ------------------------------------------------------------ prompt pool
\* A prompt text is a string of the PromptSource or of the built-in set; the
\* model keeps what the validation reads: the trimmed length, whether it ends
\* with the blank marker, and which string it is.
Str(len, blank, tag) == [len |-> len, blank |-> blank, tag |-> tag]

GenerateFallbackPrompts ==
    [i \in 1..FallbackPromptCount |-> [id |-> i, text |-> Str(30, TRUE, i)]]

ValidPromptText(t) == t.len > 0 /\ t.len < 100 /\ t.blank

RECURSIVE FilterValid(_)
FilterValid(list) ==
    IF list = <<>> THEN <<>>
    ELSE IF ValidPromptText(Head(list))
         THEN <<Head(list)>> \o FilterValid(Tail(list))
         ELSE FilterValid(Tail(list))

\* What the PromptSource call ends with: a rejection or timeout, a payload
\* that is no non-empty array, or an array of strings.
FetchFailed == [kind |-> "failed", list |-> <<>>]
FetchNotArray == [kind |-> "notArray", list |-> <<>>]
FetchList(list) == [kind |-> "list", list |-> list]

\* The pool loadPromptsFromAIIfNeeded stores once the PromptSource answered.
\* loadPromptsFromAIIfNeeded without the test for too few valid prompts.
LoadedPromptsUnchecked(outcome) ==
    LET valid == FilterValid(outcome.list)
        kept == IF Len(valid) > MaxKeptPrompts THEN SubSeq(valid, 1, MaxKeptPrompts) ELSE valid
    IN IF outcome.kind # "list" \/ outcome.list = <<>>
       THEN GenerateFallbackPrompts
       ELSE [i \in 1..Len(kept) |-> [id |-> i, text |-> kept[i]]]

LoadedPrompts(outcome) ==
    LET valid == FilterValid(outcome.list)
        kept == IF Len(valid) > MaxKeptPrompts THEN SubSeq(valid, 1, MaxKeptPrompts) ELSE valid
    IN IF outcome.kind # "list" \/ outcome.list = <<>> \/ Len(kept) < MinValidPrompts
       THEN GenerateFallbackPrompts
       ELSE [i \in 1..Len(kept) |-> [id |-> i, text |-> kept[i]]]

SelectRandomPrompts(g, count, rnd) ==
    LET shuffled == Rotate(g.prompts, rnd.draw)
    IN [i \in 1..count |-> shuffled[((i - 1) % Len(shuffled)) + 1]]

Assignment(playerId, prompt) ==
    [playerId |-> playerId, promptId |-> prompt.id, text |-> prompt.text]

\* assignPrompts as it would be if the final round were assigned like the others.
AssignPromptsRotating(g, rnd) ==
    LET n == Len(g.players)
        selected == SelectRandomPrompts(g, n, rnd)
    IN [j \in 1..(2 * n) |->
          LET i == (j + 1) \div 2
          IN IF j % 2 = 1
             THEN Assignment(g.players[i].id, selected[i])
             ELSE Assignment(g.players[(i % n) + 1].id, selected[i])]

\* assignPrompts, after the pool has been made non-empty.
AssignPrompts(g, rnd) ==
    LET n == Len(g.players)
    IN IF IsFinalRound(g)
       THEN LET sharedPrompt == g.prompts[(rnd.draw % Len(g.prompts)) + 1]
            IN [i \in 1..n |-> Assignment(g.players[i].id, sharedPrompt)]
       ELSE LET selected == SelectRandomPrompts(g, n, rnd)
            IN [j \in 1..(2 * n) |->
                  LET i == (j + 1) \div 2
                  IN IF j % 2 = 1
                     THEN Assignment(g.players[i].id, selected[i])
                     ELSE Assignment(g.players[(i % n) + 1].id, selected[i])]

\* simulateBotAnswers: one pending generateBotAnswer promise per bot and
\* assigned prompt; each later calls submitAnswer.
BotAnswerTasks(g) ==
    IF ~g.debugMode THEN {}
    ELSE {<<g.currentPrompts[i].playerId, g.currentPrompts[i].promptId>> :
             i \in {j \in DOMAIN g.currentPrompts :
                      \E p \in DOMAIN g.players :
                          /\ g.players[p].isBot
                          /\ g.players[p].id = g.currentPrompts[j].playerId}}

StartAnsweringPhase(g, rnd) ==
    LET g1 == [g EXCEPT !.state = "answering",
                        !.prompts = IF @ = <<>> THEN GenerateFallbackPrompts ELSE @]
        g2 == [g1 EXCEPT !.currentPrompts = AssignPrompts(g1, rnd),
                         !.answers = EmptyMap]
        g3 == StartTimer(g2, "answer")
    IN [g3 EXCEPT !.botTasks = @ \cup BotAnswerTasks(g3)]

\* --------------------------------------------------------------- scoring
VoteCount(g, candidateId) ==
    Cardinality({v \in DOMAIN g.votes : g.votes[v] = candidateId})

BaseValue(round) == IF round = 1 THEN BaseValueRound1 ELSE BaseValueLater

SweepBonus(round) == IF round = 1 THEN SweepBonusRound1 ELSE SweepBonusLater

\* The award as it would be if every candidate with a vote earned the bonus.
AwardBonusForAnyVote(isFinal, round, v, matchVotes) ==
    IF isFinal THEN v * MedalValue
    ELSE IF matchVotes > 0
         THEN ((v * BaseValue(round)) \div matchVotes)
              + (IF v > 0 THEN SweepBonus(round) ELSE 0)
         ELSE 0

\* The award as it would be if the share of the pot were rounded up.
AwardRoundsUp(isFinal, round, v, matchVotes) ==
    IF isFinal THEN v * MedalValue
    ELSE IF matchVotes > 0
         THEN ((v * BaseValue(round) + matchVotes - 1) \div matchVotes)
              + (IF v = matchVotes THEN SweepBonus(round) ELSE 0)
         ELSE 0

\* The award as it would be if the final round split a pot of 1000 as well.
AwardFinalByShare(isFinal, round, v, matchVotes) ==
    IF matchVotes > 0
    THEN ((v * BaseValueRound1) \div matchVotes)
         + (IF v = matchVotes /\ ~isFinal THEN SweepBonus(round) ELSE 0)
    ELSE 0

\* The points one candidate entry of a match earns.
Award(isFinal, round, v, matchVotes) ==
    IF isFinal THEN v * MedalValue
    ELSE IF matchVotes > 0
         THEN ((v * BaseValue(round)) \div matchVotes)
              + (IF v = matchVotes THEN SweepBonus(round) ELSE 0)
         ELSE 0

\* The award as it would be if it replaced the score instead of adding to it.
AddScoreOverwrites(g, playerId, points) ==
    IF HasPlayer(g, playerId)
    THEN [g EXCEPT !.players[PlayerIndex(g, playerId)].score = points]
    ELSE g

AddScore(g, playerId, points) ==
    IF HasPlayer(g, playerId)
    THEN [g EXCEPT !.players[PlayerIndex(g, playerId)].score = @ + points]
    ELSE g

RECURSIVE AwardLoop(_, _, _)
AwardLoop(g, candidates, matchVotes) ==
    IF candidates = <<>> THEN g
    ELSE AwardLoop(
            AddScore(g, Head(candidates),
                     Award(IsFinalRound(g), g.round, VoteCount(g, Head(candidates)),
                           matchVotes)),
            Tail(candidates), matchVotes)

ScheduleTimeout(g, what) == [g EXCEPT !.timeouts = Append(@, what)]

CalculateResults(g) ==
    IF g.currentMatchIndex >= Len(g.votingMatches)
    THEN [g EXCEPT !.threw = TRUE]
    ELSE LET candidates == g.votingMatches[g.currentMatchIndex + 1].cands
             matchVotes == SeqSum([i \in DOMAIN candidates |-> VoteCount(g, candidates[i])])
             g1 == AwardLoop(g, candidates, matchVotes)
         IN ScheduleTimeout(Emit(g1, "match-results", g.currentMatchIndex), "advance")

AllVotesSubmitted(g) ==
    Cardinality(DOMAIN g.votes) = Len(g.players)

SubmitVote(g, playerId, voteId) ==
    IF g.state = "tiebreaker"
    THEN [g EXCEPT !.threw = TRUE]
    ELSE LET g1 == [g EXCEPT !.votes = MapSet(@, playerId, voteId)]
         IN IF AllVotesSubmitted(g1)
            THEN CalculateResults(ClearTimer(g1, "vote"))
            ELSE g1

RECURSIVE BotVoteLoop(_, _, _, _)
BotVoteLoop(g, match, i, rnd) ==
    IF i > Len(g.players) \/ g.threw THEN g
    ELSE IF ~g.players[i].isBot THEN BotVoteLoop(g, match, i + 1, rnd)
    ELSE IF match.cands = <<>> THEN [g EXCEPT !.threw = TRUE]
    ELSE BotVoteLoop(
            SubmitVote(g, g.players[i].id, match.cands[((rnd.shuffle + i) % Len(match.cands)) + 1]),
            match, i + 1, rnd)

SimulateBotVotesForMatch(g, match, rnd) ==
    IF ~g.debugMode THEN g ELSE BotVoteLoop(g, match, 1, rnd)

CompleteVotingPhase(g) ==
    ScheduleTimeout(Emit(g, "show-results", IsFinalRound(g)), "nextRound")

StartNextVotingMatch(g, rnd) ==
    IF g.currentMatchIndex >= Len(g.votingMatches)
    THEN CompleteVotingPhase(g)
    ELSE LET g1 == StartTimer([g EXCEPT !.votes = EmptyMap, !.state = "voting"], "vote")
             g2 == SimulateBotVotesForMatch(g1, g.votingMatches[g.currentMatchIndex + 1], rnd)
         IN IF g2.threw THEN g2 ELSE Emit(g2, "start-voting", g2.currentMatchIndex)

\* startNextRound with the end test off by one.
StartNextRoundPastEnd(g) ==
    IF g.round > g.maxRounds
    THEN [g EXCEPT !.state = "finished"]
    ELSE StartTimer([g EXCEPT !.round = @ + 1, !.state = "intermission"], "intermission")

StartNextRound(g) ==
    IF g.round >= g.maxRounds
    THEN [g EXCEPT !.state = "finished"]
    ELSE StartTimer([g EXCEPT !.round = @ + 1, !.state = "intermission"], "intermission")

\* The callback completeVotingPhase hands to setTimeout.
NextRoundCallback(g) ==
    LET g1 == StartNextRound(g)
    IN IF g.round >= g.maxRounds
       THEN Emit(g1, "game-over", g1.round)
       ELSE Emit(g1, "intermission", g1.round)

\* The callback calculateResults hands to setTimeout.
AdvanceCallback(g, rnd) ==
    StartNextVotingMatch([g EXCEPT !.currentMatchIndex = @ + 1], rnd)

\* --------------------------------------------------------- match builders
RECURSIVE SortedInts(_)
SortedInts(S) ==
    IF S = {} THEN <<>>
    ELSE <<Min(S)>> \o SortedInts(S \ {Min(S)})

\* The answers given to one prompt, shuffled.
AnswersByPrompt(g, promptId, rnd) ==
    Rotate(SortedSeq({key \in DOMAIN g.answers : key[2] = promptId}), rnd.shuffle)

\* The pairs of a prompt as they would be if every answer were paired with
\* its successor.
PairsOfPromptSliding(g, promptId, rnd) ==
    LET answers == AnswersByPrompt(g, promptId, rnd)
    IN [i \in 1..(IF Len(answers) = 0 THEN 0 ELSE Len(answers) - 1) |->
          [ mode |-> "pairs", promptId |-> promptId,
            cands |-> <<answers[i][1], answers[i + 1][1]>> ]]

PairsOfPrompt(g, promptId, rnd) ==
    LET answers == AnswersByPrompt(g, promptId, rnd)
    IN [i \in 1..(Len(answers) \div 2) |->
          [ mode |-> "pairs", promptId |-> promptId,
            cands |-> <<answers[2 * i - 1][1], answers[2 * i][1]>> ]]

RECURSIVE PairsOfPrompts(_, _, _)
PairsOfPrompts(g, promptIds, rnd) ==
    IF promptIds = <<>> THEN <<>>
    ELSE PairsOfPrompt(g, Head(promptIds), rnd) \o PairsOfPrompts(g, Tail(promptIds), rnd)

\* createAnswerPairs: the match list, and whether getPlayer(...).name was read
\* of a participant that does not exist.
CreateAnswerPairs(g, rnd) ==
    LET promptIds == SortedInts({key[2] : key \in DOMAIN g.answers})
        matches == PairsOfPrompts(g, promptIds, rnd)
    IN [ matches |-> Rotate(matches, rnd.shuffle),
         threw |-> \E i \in DOMAIN matches :
                       \E c \in Range(matches[i].cands) : ~HasPlayer(g, c) ]

\* createThriplesVoting: kept for callers of the old name, hands over to the
\* pair builder.
CreateThriplesVoting(g, rnd) == CreateAnswerPairs(g, rnd)

CreateIndividualVoting(g) ==
    LET keys == SortedSeq(DOMAIN g.answers)
    IN [ cands |-> [i \in DOMAIN keys |-> keys[i][1]],
         threw |-> \E i \in DOMAIN keys : ~HasPlayer(g, keys[i][1]) ]

\* The final round as it would be if it were grouped like the other rounds.
CreateFinalRoundVotingPairs(g, rnd) == CreateAnswerPairs(g, rnd)

CreateFinalRoundVoting(g, rnd) ==
    LET all == CreateIndividualVoting(g)
    IN [ matches |-> << [mode |-> "medals", promptId |-> 0, cands |-> Rotate(all.cands, rnd.shuffle)] >>,
         threw |-> all.threw ]

\* The match list startVotingPhase builds.
BuildMatches(g, rnd) ==
    IF IsFinalRound(g) THEN CreateFinalRoundVoting(g, rnd)
    ELSE LET pairs == CreateAnswerPairs(g, rnd)
             all == CreateIndividualVoting(g)
         IN IF pairs.threw \/ pairs.matches # <<>> THEN pairs
            ELSE [ matches |-> << [mode |-> "individual", promptId |-> 0, cands |-> all.cands] >>,
                   threw |-> all.threw ]

StartVotingPhase(g, rnd) ==
    LET g1 == [g EXCEPT !.votes = EmptyMap]
        built == BuildMatches(g1, rnd)
    IN IF built.threw THEN [g1 EXCEPT !.threw = TRUE]
       ELSE StartNextVotingMatch(
               [g1 EXCEPT !.votingMatches = built.matches, !.currentMatchIndex = 0], rnd)

AllAnswersSubmitted(g) ==
    Cardinality(DOMAIN g.answers) >= Len(g.currentPrompts)

SubmitAnswer(g, playerId, promptId, answer, rnd) ==
    LET g1 == [g EXCEPT !.answers = MapSet(@, <<playerId, promptId>>, answer)]
    IN IF AllAnswersSubmitted(g1)
       THEN StartVotingPhase(ClearTimer(g1, "answer"), rnd)
       ELSE g1

\* ---------------------------------------------------------------- timers
\* The (participant, prompt) pairs the answer deadline visits, in order, each
\* with whether the participant had an answer map when its turn began.
RECURSIVE AutoFillWork(_, _, _)
AutoFillWork(g, i, j) ==
    IF i > Len(g.players) THEN <<>>
    ELSE IF j > Len(g.currentPrompts) THEN AutoFillWork(g, i + 1, 1)
    ELSE IF g.currentPrompts[j].playerId = g.players[i].id
         THEN << [ playerId |-> g.players[i].id,
                   promptId |-> g.currentPrompts[j].promptId,
                   hadMap |-> \E key \in DOMAIN g.answers : key[1] = g.players[i].id ] >>
              \o AutoFillWork(g, i, j + 1)
         ELSE AutoFillWork(g, i, j + 1)

RECURSIVE AutoFillLoop(_, _, _)
AutoFillLoop(g, work, rnd) ==
    IF work = <<>> \/ g.threw THEN g
    ELSE LET w == Head(work)
             missing == ~w.hadMap \/ <<w.playerId, w.promptId>> \notin DOMAIN g.answers
         IN AutoFillLoop(
               IF missing THEN SubmitAnswer(g, w.playerId, w.promptId, NoAnswerText, rnd) ELSE g,
               Tail(work), rnd)

\* handleTimerEnd as it would be without the phase guards.
HandleTimerEndAnyPhase(g, timerName, rnd) ==
    LET g1 == ClearTimer(g, timerName)
    IN IF timerName = "intermission"
       THEN LET g2 == StartAnsweringPhase(g1, rnd)
            IN Emit(g2, "start-answering", g2.round)
       ELSE IF timerName = "answer"
       THEN AutoFillLoop(g1, AutoFillWork(g1, 1, 1), rnd)
       ELSE CalculateResults(g1)

HandleTimerEnd(g, timerName, rnd) ==
    LET g1 == ClearTimer(g, timerName)
    IN IF timerName = "intermission" /\ g1.state = "intermission"
       THEN LET g2 == StartAnsweringPhase(g1, rnd)
            IN Emit(g2, "start-answering", g2.round)
       ELSE IF timerName = "answer" /\ g1.state = "answering"
       THEN AutoFillLoop(g1, AutoFillWork(g1, 1, 1), rnd)
       ELSE IF timerName = "vote" /\ g1.state = "voting"
       THEN CalculateResults(g1)
       ELSE g1

\* ------------------------------------------------------------ GameManager
\* Game.removePlayer
RemovePlayer(g, playerId) ==
    [g EXCEPT !.players = SelectSeq(@, LAMBDA p : p.id # playerId),
              !.answers = [key \in {x \in DOMAIN @ : x[1] # playerId} |-> @[key]],
              !.votes = MapDelete(@, playerId)]

BotName(n) == <<"Bot", n>>

\* GameManager.addPlayer takes the reconnection branch.
Rebinds(g, name) ==
    HasPlayerNamed(g, name) /\ ~GetPlayerByName(g, name).isConnected

\* GameManager.addPlayer: the game after the call.
ManagerAddPlayer(g, name, socketId, freshId) ==
    IF Rebinds(g, name)
    THEN [g EXCEPT !.players[PlayerIndex(g, GetPlayerByName(g, name).id)] =
                        [@ EXCEPT !.socketId = socketId, !.isConnected = TRUE]]
    ELSE GameAddPlayer(g, freshId, name, socketId, FALSE)

\* GameManager.addPlayer: the participant it returns.
JoinedPlayerId(g, name, freshId) ==
    IF Rebinds(g, name) THEN GetPlayerByName(g, name).id ELSE freshId

\* handleDisconnect as it would be if it dropped the participant.
DisconnectRemovesPlayer(g, playerId) == RemovePlayer(g, playerId)

\* GameManager.handleDisconnect: the game the socket is mapped to, afterwards.
DisconnectPlayer(g, playerId) ==
    IF HasPlayer(g, playerId)
    THEN [g EXCEPT !.players[PlayerIndex(g, playerId)].isConnected = FALSE]
    ELSE g

\* ---------------------------------------------------------------- actions
\* What a handler serves: a command of socket `from`, a deadline or delayed
\* callback named `txt`; a and b are the ids a command carries.
Trigger(kind, from, a, b, txt) ==
    [kind |-> kind, from |-> from, a |-> a, b |-> b, txt |-> txt]

\* A handler's end as it would be if the rooms shared one game object.
CommitToEveryRoom(code, g, tail) ==
    /\ games' = [c \in DOMAIN games |-> [g EXCEPT !.ev = <<>>]]
    /\ out' = (IF g.threw THEN g.ev ELSE g.ev \o tail)
    /\ crashed' = g.threw

\* A handler ends: the room's game is stored, what it emitted is delivered,
\* and an exception it raised ends the process.
Commit(code, g, tail) ==
    /\ games' = [games EXCEPT ![code] = [g EXCEPT !.ev = <<>>]]
    /\ out' = (IF g.threw THEN g.ev ELSE g.ev \o tail)
    /\ crashed' = g.threw

CreateGame(s, code, maxRoundsSetting, debug) ==
    /\ s \in openSockets
    /\ games' = (code :> NewGame(s, maxRoundsSetting, debug)) @@ games
    /\ creates' = creates + 1
    /\ out' = <<Ev(s, "game-created", code)>>
    /\ UNCHANGED <<playerSocketMap, openSockets, nextId, armsGameplayTimers, strays,
                   crashed>>
    /\ last' = Trigger("create-game", s, 0, 0, code)

\* The room as it would count if one participant more were let in.
RoomFullPastCapacity(g) == Len(g.players) > MaxPlayers

RoomFull(g) == Len(g.players) >= MaxPlayers

JoinGame(s, code, name) ==
    /\ s \in openSockets
    /\ UNCHANGED <<openSockets, armsGameplayTimers, creates, strays>>
    /\ IF code \notin DOMAIN games
       THEN /\ out' = <<Ev(s, "error", "Game not found")>>
            /\ UNCHANGED <<games, playerSocketMap, nextId, crashed>>
       ELSE IF RoomFull(games[code])
       THEN /\ out' = <<Ev(s, "error", "Game is full")>>
            /\ UNCHANGED <<games, playerSocketMap, nextId, crashed>>
       ELSE LET g == games[code]
                playerId == JoinedPlayerId(g, name, nextId)
            IN /\ Commit(code, ManagerAddPlayer(g, name, s, nextId),
                         <<Ev(s, "joined-game", playerId),
                           Ev(NoSocket, "player-joined", playerId)>>)
               /\ playerSocketMap' = MapSet(playerSocketMap, s,
                                            [roomCode |-> code, playerId |-> playerId])
               /\ nextId' = IF Rebinds(g, name) THEN nextId ELSE nextId + 1
    /\ last' = Trigger("join-game", s, 0, 0, name)

\* The disconnect handler: GameManager.handleDisconnect.
Disconnect(s) ==
    /\ s \in openSockets
    /\ openSockets' = openSockets \ {s}
    /\ out' = <<>>
    /\ UNCHANGED <<nextId, armsGameplayTimers, creates, strays, crashed>>
    /\ IF s \notin DOMAIN playerSocketMap
       THEN UNCHANGED <<games, playerSocketMap>>
       ELSE LET info == playerSocketMap[s]
            IN /\ games' = IF info.roomCode \in DOMAIN games
                           THEN [games EXCEPT ![info.roomCode] =
                                    DisconnectPlayer(@, info.playerId)]
                           ELSE games
               /\ playerSocketMap' = MapDelete(playerSocketMap, s)
    /\ last' = Trigger("disconnect", s, 0, 0, "")

IsAssigned(g, playerId, promptId) ==
    \E i \in DOMAIN g.currentPrompts :
        /\ g.currentPrompts[i].playerId = playerId
        /\ g.currentPrompts[i].promptId = promptId

CurrentCandidates(g) ==
    IF g.currentMatchIndex < Len(g.votingMatches)
    THEN Range(g.votingMatches[g.currentMatchIndex + 1].cands)
    ELSE {}

\* The participant's page is open: a human participant whose socket is bound.
HasOpenPage(g, playerId) ==
    \E i \in DOMAIN g.players :
        /\ g.players[i].id = playerId
        /\ g.players[i].isConnected
        /\ ~g.players[i].isBot

\* The answers and votes the player page sends: one answer per assigned prompt
\* while answering, one vote for a shown candidate while a match is open.
ExpectedAnswer(g, playerId, promptId) ==
    /\ g.state = "answering"
    /\ HasOpenPage(g, playerId)
    /\ IsAssigned(g, playerId, promptId)
    /\ <<playerId, promptId>> \notin DOMAIN g.answers

ExpectedVote(g, playerId, voteId) ==
    /\ g.state = "voting"
    /\ g.timeouts = <<>>
    /\ HasOpenPage(g, playerId)
    /\ playerId \notin DOMAIN g.votes
    /\ voteId \in CurrentCandidates(g)

\* The host page shows its start button in the lobby only.
ExpectedStart(g) == g.state = "waiting" /\ g.fetching = 0

SubmitAnswerCmd(s, code, playerId, promptId, rnd) ==
    /\ s \in openSockets
    /\ code \in DOMAIN games
    /\ LET g == SubmitAnswer(games[code], playerId, promptId, HumanAnswerText, rnd)
       IN Commit(code, g,
                 <<Ev(NoSocket, "answer-submitted",
                      Len(g.currentPrompts) - Cardinality(DOMAIN g.answers))>>)
    /\ strays' = IF ExpectedAnswer(games[code], playerId, promptId) THEN strays ELSE strays + 1
    /\ UNCHANGED <<playerSocketMap, openSockets, nextId, armsGameplayTimers, creates>>
    /\ last' = Trigger("submit-answer", s, playerId, promptId, code)

SubmitVoteCmd(s, code, playerId, voteId) ==
    /\ s \in openSockets
    /\ code \in DOMAIN games
    /\ LET g == SubmitVote(games[code], playerId, voteId)
       IN Commit(code, g,
                 <<Ev(NoSocket, "vote-submitted",
                      Len(g.players) - Cardinality(DOMAIN g.votes))>>)
    /\ strays' = IF ExpectedVote(games[code], playerId, voteId) THEN strays ELSE strays + 1
    /\ UNCHANGED <<playerSocketMap, openSockets, nextId, armsGameplayTimers, creates>>
    /\ last' = Trigger("submit-vote", s, playerId, voteId, code)

\* Game.addBot, where it adds one.
AddBotTo(g, freshId) ==
    GameAddPlayer([g EXCEPT !.botsCount = @ + 1], freshId, BotName(g.botsCount + 1),
                  NoSocket, TRUE)

AddBot(s, code) ==
    /\ s \in openSockets
    /\ code \in DOMAIN games
    /\ UNCHANGED <<playerSocketMap, openSockets, armsGameplayTimers, creates, strays>>
    /\ LET g == games[code]
       IN IF s # g.hostSocketId
          THEN /\ out' = <<Ev(s, "error", "Only the host can add bots.")>>
               /\ UNCHANGED <<games, nextId, crashed>>
          ELSE IF Len(g.players) >= MaxPlayers
          THEN /\ out' = <<Ev(s, "error", "Cannot add more bots.")>>
               /\ UNCHANGED <<games, nextId, crashed>>
          ELSE /\ Commit(code, AddBotTo(g, nextId), <<Ev(NoSocket, "bot-added", nextId)>>)
               /\ nextId' = nextId + 1
    /\ last' = Trigger("add-bot", s, 0, 0, code)

\* Game.removeBot
RemoveBotOf(g) ==
    LET bots == {i \in DOMAIN g.players : g.players[i].isBot}
        lastBot == g.players[CHOOSE i \in bots : \A j \in bots : j <= i]
    IN IF bots = {} THEN g
       ELSE [RemovePlayer(g, lastBot.id) EXCEPT !.botsCount = @ - 1]

RemoveBot(s, code) ==
    /\ s \in openSockets
    /\ code \in DOMAIN games
    /\ UNCHANGED <<playerSocketMap, openSockets, nextId, armsGameplayTimers, creates, strays>>
    /\ LET g == games[code]
       IN IF s # g.hostSocketId
          THEN /\ out' = <<Ev(s, "error", "Only the host can remove bots.")>>
               /\ UNCHANGED <<games, crashed>>
          ELSE Commit(code, RemoveBotOf(g), <<Ev(NoSocket, "bot-removed", 0)>>)
    /\ last' = Trigger("remove-bot", s, 0, 0, code)

MinPlayers(g) == IF g.debugMode THEN MinPlayersDebug ELSE MinPlayersStandard

\* The start-game checks as they would be without the host check.
StartRejectedByCountOnly(g, s) == Len(g.players) < MinPlayers(g)

\* The checks of the start-game handler.
StartRejected(g, s) ==
    s # g.hostSocketId \/ Len(g.players) < MinPlayers(g)

\* Game.startGame after loadPromptsFromAIIfNeeded has returned, and the
\* handler's notification.
StartGameTail(g, rnd) ==
    LET g1 == StartAnsweringPhase([g EXCEPT !.round = 1], rnd)
    IN Emit(g1, "game-started", g1.round)

\* The start-game handler up to the point where startGame waits on the
\* PromptSource; with a non-empty pool startGame does not wait.
StartGame(s, code, rnd) ==
    /\ s \in openSockets
    /\ code \in DOMAIN games
    /\ UNCHANGED <<playerSocketMap, openSockets, nextId, armsGameplayTimers, creates>>
    /\ LET g == games[code]
       IN IF StartRejected(g, s)
          THEN /\ out' = <<Ev(s, "error",
                              IF s # g.hostSocketId
                              THEN "Only the host can start the game."
                              ELSE "More players are required to start the game.")>>
               /\ UNCHANGED <<games, strays, crashed>>
          ELSE /\ strays' = IF ExpectedStart(g) THEN strays ELSE strays + 1
               /\ IF g.prompts # <<>>
                  THEN Commit(code, StartGameTail(g, rnd), <<>>)
                  ELSE Commit(code, [g EXCEPT !.fetching = @ + 1], <<>>)
    /\ last' = Trigger("start-game", s, 0, 0, code)

\* The PromptSource call of one waiting startGame ends; startGame runs on.
StartGameResume(code, outcome, rnd) ==
    /\ code \in DOMAIN games
    /\ games[code].fetching > 0
    /\ Commit(code,
              StartGameTail([games[code] EXCEPT !.fetching = @ - 1,
                                                !.prompts = LoadedPrompts(outcome)], rnd),
              <<>>)
    /\ UNCHANGED <<playerSocketMap, openSockets, nextId, armsGameplayTimers, creates, strays>>
    /\ last' = Trigger("prompts-loaded", NoSocket, 0, 0, outcome.kind)

HostReconnect(s, code) ==
    /\ s \in openSockets
    /\ UNCHANGED <<playerSocketMap, openSockets, nextId, armsGameplayTimers, creates, strays>>
    /\ IF code \notin DOMAIN games
       THEN /\ out' = <<Ev(s, "error", "Game not found")>>
            /\ UNCHANGED <<games, crashed>>
       ELSE Commit(code, [games[code] EXCEPT !.hostSocketId = s],
                   <<Ev(s, "game-created", code)>>)
    /\ last' = Trigger("host-reconnect", s, 0, 0, code)

\* The deadline of an armed timer elapses.
TimerFire(code, timerName, rnd) ==
    /\ code \in DOMAIN games
    /\ games[code].intervals[timerName] > 0
    /\ timerName \in games[code].timers
    /\ Commit(code, HandleTimerEnd(games[code], timerName, rnd), <<>>)
    /\ UNCHANGED <<playerSocketMap, openSockets, nextId, armsGameplayTimers, creates, strays>>
    /\ last' = Trigger("deadline", NoSocket, 0, 0, timerName)

\* The oldest pending setTimeout callback runs (all wait 5000 ms).
TimeoutFire(code, rnd) ==
    /\ code \in DOMAIN games
    /\ games[code].timeouts # <<>>
    /\ LET g == [games[code] EXCEPT !.timeouts = Tail(@)]
       IN IF Head(games[code].timeouts) = "advance"
          THEN Commit(code, AdvanceCallback(g, rnd), <<>>)
          ELSE Commit(code, NextRoundCallback(g), <<>>)
    /\ UNCHANGED <<playerSocketMap, openSockets, nextId, armsGameplayTimers, creates, strays>>
    /\ last' = Trigger("timeout", NoSocket, 0, 0, Head(games[code].timeouts))

\* A generateBotAnswer promise resolves.
BotAnswerArrives(code, task, rnd) ==
    /\ code \in DOMAIN games
    /\ task \in games[code].botTasks
    /\ Commit(code,
              SubmitAnswer([games[code] EXCEPT !.botTasks = @ \ {task}],
                           task[1], task[2], BotAnswerText, rnd),
              <<>>)
    /\ UNCHANGED <<playerSocketMap, openSockets, nextId, armsGameplayTimers, creates, strays>>
    /\ last' = Trigger("bot-answer", NoSocket, task[1], task[2], code)

\* ---------------------------------------------------------- specification
SocketIds == 1..MaxSockets

\* The outcomes of the Math.random calls of one handler.
Randoms == [shuffle : 0..(ShuffleChoices - 1), draw : 0..(PromptDrawChoices - 1)]

\* What the PromptSource is seen to answer.
PromptSourceOutcomes ==
    { FetchFailed, FetchNotArray,
      FetchList([i \in 1..5 |-> Str(20, TRUE, 100 + i)]),
      FetchList([i \in 1..6 |-> Str(IF i = 2 THEN 100 ELSE 20, i # 4, 200 + i)]),
      FetchList([i \in 1..(MaxKeptPrompts + 1) |-> Str(20, TRUE, 300 + i)]) }

\* The state of a freshly started server process.
InitProcess ==
    /\ games = EmptyMap
    /\ playerSocketMap = EmptyMap
    /\ openSockets = SocketIds
    /\ nextId = 1
    /\ armsGameplayTimers \in BOOLEAN
    /\ creates = 0
    /\ strays = 0
    /\ out = <<>>
    /\ last = Trigger("listen", NoSocket, 0, 0, "")
    /\ crashed = FALSE

\* A lobby: socket 1 has created room AAAA, sockets 2 and 3 have joined it as
\* Alice and Bob, or the host has added bots in their places.
Lobby(maxRoundsSetting, debug, bots) ==
    LET g0 == NewGame(1, maxRoundsSetting, debug)
        g1 == IF bots >= 2 THEN AddBotTo(g0, 1) ELSE ManagerAddPlayer(g0, "Alice", 2, 1)
    IN IF bots >= 1 THEN AddBotTo(g1, 2) ELSE ManagerAddPlayer(g1, "Bob", 3, 2)

LobbySocketMap(bots) ==
    [s \in (IF bots >= 2 THEN {} ELSE IF bots = 1 THEN {2} ELSE {2, 3}) |->
        [roomCode |-> "AAAA", playerId |-> s - 1]]

\* Play starts from a lobby of two participants.
InitLobby(maxRoundsSettings, botCounts) ==
    /\ armsGameplayTimers \in BOOLEAN
    /\ \E m \in maxRoundsSettings, bots \in botCounts :
          /\ games = ("AAAA" :> Lobby(m, bots > 0, bots))
          /\ playerSocketMap = LobbySocketMap(bots)
    /\ openSockets = SocketIds
    /\ nextId = 3
    /\ creates = 1
    /\ strays = 0
    /\ out = <<>>
    /\ last = Trigger("listen", NoSocket, 0, 0, "")
    /\ crashed = FALSE

\* The ids a submit-answer or submit-vote command may carry: the participants'
\* and one that is no participant's.
IdInputs == {GhostId} \cup {i \in 1..MaxIds : i < nextId}

\* The prompt ids a submit-answer command may carry: the assigned ones and one
\* that is not in the pool.
PromptIdInputs(code) ==
    {0} \cup {games[code].currentPrompts[i].promptId : i \in DOMAIN games[code].currentPrompts}

\* The handlers of submit-answer and submit-vote do not read the socket.
AnyOpenSocket == IF openSockets = {} THEN {} ELSE {Min(openSockets)}

HostSocket(code) == IF code \in DOMAIN games THEN {games[code].hostSocketId} ELSE {}

\* The exploration bounds.
Within ==
    /\ \A code \in DOMAIN games : Len(games[code].timeouts) <= MaxPending
    /\ nextId <= MaxIds + 1
    /\ creates <= MaxCreates
    /\ strays <= MaxStrays

\* A step whose command the clients' pages send, and one they do not.
OnProtocol == strays' = strays

OffProtocol == strays' # strays

Answers ==
    \E s \in AnyOpenSocket, code \in DOMAIN games, p \in IdInputs, rnd \in Randoms :
        \E q \in PromptIdInputs(code) : SubmitAnswerCmd(s, code, p, q, rnd)

Votes ==
    \E s \in AnyOpenSocket, code \in DOMAIN games, p \in IdInputs, v \in IdInputs :
        SubmitVoteCmd(s, code, p, v)

HostStarts ==
    \E code \in RoomCodes, rnd \in Randoms : \E s \in HostSocket(code) : StartGame(s, code, rnd)

AnyStarts ==
    \E s \in SocketIds, code \in RoomCodes, rnd \in Randoms : StartGame(s, code, rnd)

PromptSourceDown ==
    \E code \in RoomCodes, o \in {FetchFailed, FetchNotArray}, rnd \in Randoms :
        StartGameResume(code, o, rnd)

PromptSourceAnswers ==
    \E code \in RoomCodes, o \in PromptSourceOutcomes, rnd \in Randoms :
        StartGameResume(code, o, rnd)

AnswerDeadline ==
    \E code \in RoomCodes, rnd \in Randoms : TimerFire(code, "answer", rnd)

VoteDeadline ==
    \E code \in RoomCodes, rnd \in Randoms : TimerFire(code, "vote", rnd)

IntermissionDeadline ==
    \E code \in RoomCodes, rnd \in Randoms : TimerFire(code, "intermission", rnd)

Timeouts ==
    \E code \in RoomCodes, rnd \in Randoms : TimeoutFire(code, rnd)

BotAnswers ==
    \E code \in DOMAIN games, rnd \in Randoms :
        \E task \in games[code].botTasks : BotAnswerArrives(code, task, rnd)

Joins ==
    \E s \in SocketIds, code \in RoomCodes, name \in Names : JoinGame(s, code, name)

Disconnects ==
    \E s \in SocketIds : Disconnect(s)

\* Play: two participants answer and vote through the rounds of one game; the
\* pages send what they are built to send, and every deadline may elapse.
Init == InitLobby(1..MaxRoundsInput, {0})

Next ==
    /\ ~crashed
    /\ \/ HostStarts /\ OnProtocol
       \/ PromptSourceDown
       \/ Answers /\ OnProtocol
       \/ Votes /\ OnProtocol
       \/ AnswerDeadline
       \/ VoteDeadline
       \/ IntermissionDeadline
       \/ Timeouts
    /\ Within'

Spec == Init /\ [][Next]_vars

\* Play in which any vote may arrive; every answer arrives in time.
VoteFaultNext ==
    /\ ~crashed
    /\ \/ HostStarts /\ OnProtocol
       \/ PromptSourceDown
       \/ Answers /\ OnProtocol
       \/ Votes
       \/ VoteDeadline
       \/ IntermissionDeadline
       \/ Timeouts
    /\ Within'

VoteFaultSpec == Init /\ [][VoteFaultNext]_vars

\* Play in which any answer may arrive; matches end by their deadline.
AnswerFaultNext ==
    /\ ~crashed
    /\ \/ HostStarts /\ OnProtocol
       \/ PromptSourceDown
       \/ Answers
       \/ AnswerDeadline
       \/ VoteDeadline
       \/ IntermissionDeadline
       \/ Timeouts
    /\ Within'

AnswerFaultSpec == Init /\ [][AnswerFaultNext]_vars

\* Play in which the host may send start again; matches end by their deadline.
RestartNext ==
    /\ ~crashed
    /\ \/ HostStarts
       \/ PromptSourceDown
       \/ Answers /\ OnProtocol
       \/ AnswerDeadline
       \/ VoteDeadline
       \/ IntermissionDeadline
       \/ Timeouts
    /\ Within'

RestartSpec == Init /\ [][RestartNext]_vars

\* ------------------------------------------- joining and leaving a session
\* A handler has ended: what it emitted has been delivered.
Quiet(g) == [g EXCEPT !.ev = <<>>]

FirstRandom == [shuffle |-> 0, draw |-> 0]

\* The game of Alice and Bob after the first k handlers of one play of a
\* single-round game: start with the PromptSource down, Alice's answer, Bob's
\* answer, Alice's vote for Bob, Bob's vote for Bob, and the two delayed
\* callbacks.
RECURSIVE Played(_)
Played(k) ==
    IF k = 0 THEN Lobby(1, FALSE, 0)
    ELSE LET g == Played(k - 1)
         IN Quiet(CASE k = 1 -> StartGameTail([g EXCEPT !.prompts = LoadedPrompts(FetchFailed)],
                                              FirstRandom)
                    [] k = 2 -> SubmitAnswer(g, 1, g.currentPrompts[1].promptId,
                                             HumanAnswerText, FirstRandom)
                    [] k = 3 -> SubmitAnswer(g, 2, g.currentPrompts[2].promptId,
                                             HumanAnswerText, FirstRandom)
                    [] k = 4 -> SubmitVote(g, 1, 2)
                    [] k = 5 -> SubmitVote(g, 2, 2)
                    [] k = 6 -> AdvanceCallback([g EXCEPT !.timeouts = Tail(@)], FirstRandom)
                    [] k = 7 -> NextRoundCallback([g EXCEPT !.timeouts = Tail(@)])
                    [] OTHER -> g)

\* The handlers of that play.
PlayedSteps == 7

\* A session: participants leave and join at any moment of that game.
InitSession ==
    /\ armsGameplayTimers \in BOOLEAN
    /\ \E k \in 0..PlayedSteps : games = ("AAAA" :> Played(k))
    /\ playerSocketMap = LobbySocketMap(0)
    /\ openSockets = SocketIds
    /\ nextId = 3
    /\ creates = 1
    /\ strays = 0
    /\ out = <<>>
    /\ last = Trigger("listen", NoSocket, 0, 0, "")
    /\ crashed = FALSE

SessionNext ==
    /\ ~crashed
    /\ \/ Joins
       \/ Disconnects
    /\ Within'

SessionSpec == InitSession /\ [][SessionNext]_vars

\* --------------------------------------------------- the lobby, on its own
\* The lobby is explored up to MaxLobbyPlayers participants, and until the
\* game has started.
SmallLobby == \A code \in DOMAIN games : Len(games[code].players) <= MaxLobbyPlayers

InLobby == \A code \in DOMAIN games : games[code].state = "waiting"

LobbyNext ==
    /\ ~crashed
    /\ \/ PromptSourceAnswers
       \/ /\ InLobby
          /\ \/ \E code \in RoomCodes, m \in 1..MaxRoundsInput, d \in BOOLEAN :
                    CreateGame(1, code, m, d)
             \/ Joins
             \/ \E code \in RoomCodes : \E s \in HostSocket(code) : AddBot(s, code)
             \/ \E code \in RoomCodes : \E s \in HostSocket(code) : RemoveBot(s, code)
             \/ \E s \in SocketIds, code \in RoomCodes : HostReconnect(s, code)
             \/ AnyStarts
    /\ Within'
    /\ SmallLobby'

LobbySpec == InitProcess /\ [][LobbyNext]_vars

\* ------------------------------------------------------- rooms of any size
\* Sockets 2 and 3 join room AAAA in turn, as Alice and as Bob; a join under
\* the name of a connected participant creates a further participant.
RoomName(i) == IF i % 2 = 1 THEN "Alice" ELSE "Bob"

RoomSocket(i) == IF i % 2 = 1 THEN 2 ELSE 3

RECURSIVE Room(_, _, _)
Room(n, maxRoundsSetting, debug) ==
    IF n = 0 THEN NewGame(1, maxRoundsSetting, debug)
    ELSE ManagerAddPlayer(Room(n - 1, maxRoundsSetting, debug), RoomName(n), RoomSocket(n), n)

RoomSocketMap(n) ==
    [s \in {RoomSocket(i) : i \in 1..n} |->
        [roomCode |-> "AAAA",
         playerId |-> CHOOSE i \in 1..n :
                          /\ RoomSocket(i) = s
                          /\ \A j \in 1..n : RoomSocket(j) = s => j <= i]]

\* The process with room AAAA holding game g of n participants.
InitRoom(g, n) ==
    /\ games = ("AAAA" :> g)
    /\ playerSocketMap = RoomSocketMap(n)
    /\ openSockets = SocketIds
    /\ nextId = n + 1
    /\ creates = 1
    /\ strays = 0
    /\ out = <<>>
    /\ last = Trigger("listen", NoSocket, 0, 0, "")
    /\ crashed = FALSE

\* ------------------------------------------------- prompts are assigned
\* The answer the pages send next: the first assignment not answered yet.
AnswersInTurn ==
    \E s \in AnyOpenSocket, code \in DOMAIN games, rnd \in Randoms :
        LET g == games[code]
            todo == {j \in DOMAIN g.currentPrompts :
                        <<g.currentPrompts[j].playerId, g.currentPrompts[j].promptId>>
                            \notin DOMAIN g.answers}
        IN /\ g.state = "answering"
           /\ todo # {}
           /\ SubmitAnswerCmd(s, code, g.currentPrompts[Min(todo)].playerId,
                              g.currentPrompts[Min(todo)].promptId, rnd)

\* The vote the pages send next: the first participant who has not voted
\* votes for the first candidate of the open match.
VotesInTurn ==
    \E s \in AnyOpenSocket, code \in DOMAIN games :
        LET g == games[code]
            idle == {i \in DOMAIN g.players : g.players[i].id \notin DOMAIN g.votes}
        IN /\ g.state = "voting"
           /\ g.timeouts = <<>>
           /\ idle # {}
           /\ SubmitVoteCmd(s, code, g.players[Min(idle)].id,
                            g.votingMatches[g.currentMatchIndex + 1].cands[1])

\* ---------------------------------------------------- matches are scored
\* A lobby of PlayedPlayers participants; the game is started with the
\* PromptSource down and played round after round.  In the first match of a
\* round any participant may vote for any id and the vote deadline may pass;
\* the other matches are voted in turn, and the play goes on past a first
\* match only when that one was voted in turn too.
InitScoring ==
    /\ armsGameplayTimers \in BOOLEAN
    /\ \E m \in 1..MaxPlayedRounds :
          InitRoom(Room(PlayedPlayers, m, FALSE), PlayedPlayers)

\* The first match of the round is open or on display.
FirstMatch == \A code \in DOMAIN games : games[code].currentMatchIndex = 0

VotedInTurn ==
    \A code \in DOMAIN games :
        LET g == games[code]
        IN /\ DOMAIN g.votes = {g.players[i].id : i \in DOMAIN g.players}
           /\ \A id \in DOMAIN g.votes :
                 g.votes[id] = g.votingMatches[g.currentMatchIndex + 1].cands[1]

ScoringNext ==
    /\ ~crashed
    /\ \/ HostStarts /\ OnProtocol
       \/ PromptSourceDown
       \/ AnswersInTurn /\ OnProtocol
       \/ FirstMatch /\ Votes
       \/ FirstMatch /\ VoteDeadline
       \/ ~FirstMatch /\ VotesInTurn /\ OnProtocol
       \/ Timeouts /\ (FirstMatch => VotedInTurn)
       \/ IntermissionDeadline
    /\ Within'

ScoringSpec == InitScoring /\ [][ScoringNext]_vars

\* A lobby of any size.
InitAssign ==
    /\ armsGameplayTimers \in BOOLEAN
    /\ \E n \in 1..MaxRoomPlayers, m \in 1..MaxPlayedRounds, d \in BOOLEAN :
          InitRoom(Room(n, m, d), n)

\* The host starts the game and it is played round after round, the pages
\* answering and voting in turn.
AssignNext ==
    /\ ~crashed
    /\ \/ HostStarts /\ OnProtocol
       \/ PromptSourceAnswers
       \/ AnswersInTurn /\ OnProtocol
       \/ VotesInTurn /\ OnProtocol
       \/ Timeouts
       \/ IntermissionDeadline

AssignSpec == InitAssign /\ [][AssignNext]_vars

\* ------------------------------------------------- match lists are built
\* Room AAAA with BuildPlayers participants.  Any participant's answer to any
\* of the first BuildPrompts prompts may arrive at any time: in the lobby,
\* where no assignment is open and every answer builds the match list anew,
\* and in a round, where the list is built when the answers are as many as
\* the assignments or when the answer deadline has filled them in.
\* No answer arrives while the PromptSource is being asked.
InitBuild ==
    /\ armsGameplayTimers \in BOOLEAN
    /\ \E m \in 1..MaxRoundsInput : InitRoom(Room(BuildPlayers, m, FALSE), BuildPlayers)

ParticipantAnswers ==
    \E code \in DOMAIN games, rnd \in Randoms :
        \E i \in DOMAIN games[code].players, q \in 1..BuildPrompts :
            /\ games[code].fetching = 0
            /\ SubmitAnswerCmd(games[code].players[i].socketId, code,
                            games[code].players[i].id, q, rnd)

BuildNext ==
    /\ ~crashed
    /\ \/ HostStarts /\ OnProtocol
       \/ PromptSourceDown
       \/ ParticipantAnswers
       \/ AnswerDeadline
    /\ strays' <= MaxFloodAnswers

BuildSpec == InitBuild /\ [][BuildNext]_vars

\* ------------------------------------------------------------ properties
Scores(g) == [i \in DOMAIN g.players |-> g.players[i].score]

Emitted(type) == \E i \in DOMAIN out : out[i].type = type

\* The results of the current match have been computed and the callback that
\* opens the next match has not run yet (the 5-second result display).
ResultsShown(g) == \E i \in DOMAIN g.timeouts : g.timeouts[i] = "advance"

\* C1: the awards of a match are applied exactly once: while the results of
\* the current match are on display, no vote and no vote deadline computes
\* results or adds to a score again.
AwardsAppliedOnce ==
    [][\A code \in DOMAIN games :
          ResultsShown(games[code]) =>
              /\ Scores(games'[code]) = Scores(games[code])
              /\ ~(Emitted("match-results"))']_vars

\* C10: every entry of the vote tally belongs to a connected participant of
\* the session.
EligibleVoter(g, playerId) ==
    \E i \in DOMAIN g.players : g.players[i].id = playerId /\ g.players[i].isConnected

TallyOfEligibleVoters ==
    \A code \in DOMAIN games :
        \A voter \in DOMAIN games[code].votes : EligibleVoter(games[code], voter)

\* C2: within one round the match list is built once: while the game is in
\* voting and the round goes on, no step rebuilds the match list or takes the
\* match index back.
VotingBuiltOncePerRound ==
    [][\A code \in DOMAIN games :
          (/\ games[code].state = "voting"
           /\ games'[code].state = "voting"
           /\ games'[code].round = games[code].round)
          => /\ games'[code].votingMatches = games[code].votingMatches
             /\ games'[code].currentMatchIndex >= games[code].currentMatchIndex]_vars

\* C7: an answer is recorded only for an assignment of the round, a vote only
\* of a participant for a candidate of the current match, and no handler
\* raises an error.
InvalidCommandsRejected ==
    [][/\ ~crashed'
       /\ \A code \in DOMAIN games :
             /\ \A key \in DOMAIN games'[code].answers :
                   key \notin DOMAIN games[code].answers
                       => IsAssigned(games'[code], key[1], key[2])
             /\ \A voter \in DOMAIN games'[code].votes :
                   (\/ voter \notin DOMAIN games[code].votes
                    \/ games'[code].votes[voter] # games[code].votes[voter])
                       => /\ HasPlayer(games'[code], voter)
                          /\ games'[code].votes[voter] \in CurrentCandidates(games'[code])]_vars

\* C4: while a start command waits on the PromptSource, the only step of its
\* room is the one in which that start runs on.
StartSerialized ==
    [][\A code \in DOMAIN games :
          games[code].fetching > 0 =>
              games'[code].fetching = games[code].fetching - 1]_vars

\* C5: a join under the name of a participant who has disconnected gives that
\* participant back and creates no new one.
ReconnectionKeepsIdentity ==
    [][\A code \in DOMAIN games :
          Len(games'[code].players) > Len(games[code].players) =>
              ~\E i \in DOMAIN games[code].players :
                  /\ games[code].players[i].name =
                         games'[code].players[Len(games'[code].players)].name
                  /\ ~games[code].players[i].isConnected]_vars

\* A deadline fires whose phase is no longer the game's phase.
StaleDeadline(g, timerName) ==
    \/ timerName = "answer" /\ g.state # "answering"
    \/ timerName = "vote" /\ g.state # "voting"
    \/ timerName = "intermission" /\ g.state # "intermission"

SameRoundState(h, g) ==
    /\ h.state = g.state
    /\ h.round = g.round
    /\ h.currentPrompts = g.currentPrompts
    /\ h.answers = g.answers
    /\ h.votes = g.votes
    /\ h.votingMatches = g.votingMatches
    /\ h.currentMatchIndex = g.currentMatchIndex
    /\ h.players = g.players

\* C3: a deadline that fires when its phase is no longer active leaves phase,
\* round, assignments, answers, vote tally, match list, match index and every
\* score as they were.
StaleDeadlineIsNoOp ==
    [][last'.kind = "deadline" =>
          \A code \in DOMAIN games :
              StaleDeadline(games[code], last'.txt) =>
                  SameRoundState(games'[code], games[code])]_vars

\* The vote deadline has fired in a game that was no longer voting.
StaleVoteDeadlineFired ==
    /\ last.kind = "deadline"
    /\ last.txt = "vote"
    /\ \E code \in DOMAIN games : games[code].state \in {"answering", "intermission"}

\* C6: a disconnect sets the mapped participant's connected flag to false and
\* removes the socket's mapping; the participant list keeps every participant
\* with its id and score, the room stays registered, and phase, round,
\* assignments, answers, vote tally, match list and deadlines are as they
\* were; a socket that is not mapped changes nothing.
DisconnectOnlyUnbinds ==
    [][last'.kind = "disconnect" =>
          LET s == last'.from
              mapped == s \in DOMAIN playerSocketMap
          IN /\ DOMAIN games' = DOMAIN games
             /\ playerSocketMap' = [x \in DOMAIN playerSocketMap \ {s} |-> playerSocketMap[x]]
             /\ ~mapped => games' = games
             /\ \A code \in DOMAIN games :
                   LET g == games[code]
                       h == games'[code]
                   IN /\ DOMAIN h.players = DOMAIN g.players
                      /\ \A i \in DOMAIN g.players :
                            /\ h.players[i].id = g.players[i].id
                            /\ h.players[i].name = g.players[i].name
                            /\ h.players[i].score = g.players[i].score
                            /\ h.players[i].isConnected =
                                  (/\ g.players[i].isConnected
                                   /\ ~(/\ mapped
                                        /\ playerSocketMap[s].roomCode = code
                                        /\ playerSocketMap[s].playerId = g.players[i].id))
                      /\ h.state = g.state
                      /\ h.round = g.round
                      /\ h.currentPrompts = g.currentPrompts
                      /\ h.answers = g.answers
                      /\ h.votes = g.votes
                      /\ h.votingMatches = g.votingMatches
                      /\ h.currentMatchIndex = g.currentMatchIndex
                      /\ h.timers = g.timers
                      /\ h.timeouts = g.timeouts]_vars

\* A participant with points has disconnected while the tally of a match holds
\* votes and its results are on display.
ScorerDisconnected ==
    /\ last.kind = "disconnect"
    /\ \E code \in DOMAIN games :
          /\ games[code].state = "voting"
          /\ DOMAIN games[code].votes # {}
          /\ ResultsShown(games[code])
          /\ \E i \in DOMAIN games[code].players :
                /\ ~games[code].players[i].isConnected
                /\ games[code].players[i].score > 0

\* C8: a start command is accepted exactly when it comes from the room's
\* current host socket and the room has at least 2 participants, or at least
\* 1 in debug mode; a refused start reports an error to its sender and leaves
\* the room as it was: waiting, round 0, same pool, assignments and deadlines.
StartOnlyByHostWithEnoughPlayers ==
    [][last'.kind = "start-game" =>
          \A code \in DOMAIN games :
              LET g == games[code]
                  h == games'[code]
                  s == last'.from
                  allowed == /\ s = g.hostSocketId
                             /\ Len(g.players) >= (IF g.debugMode THEN MinPlayersDebug
                                                   ELSE MinPlayersStandard)
              IN IF allowed
                 THEN \/ h.fetching = g.fetching + 1
                      \/ h.state = "answering" /\ h.round = 1
                 ELSE /\ h = g
                      /\ g.state = "waiting" => h.state = "waiting" /\ h.round = 0
                      /\ \E i \in DOMAIN out' : out'[i].type = "error" /\ out'[i].to = s]_vars

\* The host of a standard room with exactly one participant has sent start and
\* has been refused.
SoloStartRefused ==
    /\ last.kind = "start-game"
    /\ Emitted("error")
    /\ \E code \in DOMAIN games :
          /\ last.from = games[code].hostSocketId
          /\ ~games[code].debugMode
          /\ Len(games[code].players) = 1
          /\ games[code].state = "waiting"
          /\ games[code].fetching = 0

\* C9: every score is a natural number, is 0 for a new participant and is
\* never lowered by a step.
ScoresNeverDecrease ==
    /\ \A code \in DOMAIN games :
          \A i \in DOMAIN games[code].players : games[code].players[i].score = 0
    /\ [][\A code \in DOMAIN games :
             \A j \in DOMAIN games'[code].players :
                 LET p == games'[code].players[j]
                     before == {i \in DOMAIN games[code].players :
                                   games[code].players[i].id = p.id}
                 IN /\ p.score \in Nat
                    /\ before = {} => p.score = 0
                    /\ \A i \in before : p.score >= games[code].players[i].score]_vars

\* Points have been awarded more than once to one participant.
ScoreRaisedTwice ==
    /\ last.kind \in {"submit-vote", "deadline"}
    /\ Emitted("match-results")
    /\ \E code \in DOMAIN games :
          \E i \in DOMAIN games[code].players :
              games[code].players[i].score > BaseValueRound1 + SweepBonusRound1

\* --------------------------------------------------- properties of scoring
\* The votes of the tally that name candidate c.
TallyFor(g, c) == Cardinality({voter \in DOMAIN g.votes : g.votes[voter] = c})

\* The handler that has just ended computed the results of a match.
ResultsComputed == Emitted("match-results")

\* The match whose results the step computes, and what each participant gains.
ScoredMatch(code) == games[code].votingMatches[games[code].currentMatchIndex + 1]

Gain(code, i) == games'[code].players[i].score - games[code].players[i].score

RECURSIVE SumOver(_, _)
SumOver(f, S) ==
    IF S = {} THEN 0
    ELSE LET x == CHOOSE y \in S : TRUE IN f[x] + SumOver(f, S \ {x})

\* C11: in a round before the final one, the awards of a match are natural
\* numbers and add up to at most 1000 + 500 in round 1 and 2000 + 1000 later.
PotNeverExceeded ==
    [][ResultsComputed' =>
          \A code \in DOMAIN games :
              ~IsFinalRound(games[code]) =>
                  /\ \A i \in DOMAIN games[code].players : Gain(code, i) \in Nat
                  /\ SumOver([i \in DOMAIN games[code].players |-> Gain(code, i)],
                             DOMAIN games[code].players)
                        <= (IF games[code].round = 1
                            THEN BaseValueRound1 + SweepBonusRound1
                            ELSE BaseValueLater + SweepBonusLater)]_vars

\* The results of a match of round 2 of 3 have been computed from three votes
\* that two candidates share.
PotSplitInRoundTwo ==
    /\ ResultsComputed
    /\ \E code \in DOMAIN games :
          LET g == games[code]
              cands == g.votingMatches[g.currentMatchIndex + 1].cands
          IN /\ g.round = 2
             /\ ~IsFinalRound(g)
             /\ TallyFor(g, cands[1]) = 2
             /\ TallyFor(g, cands[2]) = 1

\* The participants named by the candidate list of a match, without repeats;
\* a paired match never lists a participant twice.
DistinctCandidates(match) ==
    \A a, b \in DOMAIN match.cands : match.cands[a] = match.cands[b] => a = b

IsCandidate(match, playerId) == \E a \in DOMAIN match.cands : match.cands[a] = playerId

\* The votes of the tally that name a candidate of the match.
MatchVotesOf(g, match) ==
    Cardinality({voter \in DOMAIN g.votes : IsCandidate(match, g.votes[voter])})

\* C12: in a round before the final one, a candidate who holds all votes of
\* the match (at least one) gains exactly 1000 + 500 in round 1 and
\* 2000 + 1000 later and every other candidate gains 0; a candidate with a
\* smaller share gains floor(baseValue * candidateVotes / matchVotes) and no
\* bonus.
ShareOfPotAwarded ==
    [][ResultsComputed' =>
          \A code \in DOMAIN games :
              LET g == games[code]
                  h == games'[code]
                  match == ScoredMatch(code)
                  matchVotes == MatchVotesOf(h, match)
                  base == IF g.round = 1 THEN 1000 ELSE 2000
                  bonus == IF g.round = 1 THEN 500 ELSE 1000
              IN (~IsFinalRound(g) /\ DistinctCandidates(match) /\ matchVotes >= 1) =>
                    \A i \in DOMAIN g.players :
                        LET v == TallyFor(h, g.players[i].id)
                        IN IF ~IsCandidate(match, g.players[i].id) THEN Gain(code, i) = 0
                           ELSE IF v = matchVotes THEN Gain(code, i) = base + bonus
                           ELSE Gain(code, i) = (base * v) \div matchVotes]_vars

\* In round 1 of a longer game a candidate has taken all three votes of a
\* match: 1500 points, and nothing for the other candidate.
SweepInRoundOne ==
    /\ ResultsComputed
    /\ \E code \in DOMAIN games :
          LET g == games[code]
              cands == g.votingMatches[g.currentMatchIndex + 1].cands
          IN /\ g.round = 1
             /\ ~IsFinalRound(g)
             /\ Cardinality(DOMAIN g.votes) = 3
             /\ \E i, j \in DOMAIN g.players :
                   /\ g.players[i].id = cands[1]
                   /\ g.players[j].id = cands[2]
                   /\ TallyFor(g, cands[1]) = 3
                   /\ g.players[i].score = 1500
                   /\ g.players[j].score = 0

RoundOpened == Emitted("game-started") \/ Emitted("start-answering")

InPool(g, promptId, text) ==
    \E k \in DOMAIN g.prompts : g.prompts[k].id = promptId /\ g.prompts[k].text = text

\* One assignment per participant, all with one prompt of the pool.
SharedAssignments(g) ==
    /\ Len(g.currentPrompts) = Len(g.players)
    /\ \A i \in DOMAIN g.currentPrompts :
          /\ g.currentPrompts[i].playerId = g.players[i].id
          /\ g.currentPrompts[i].promptId = g.currentPrompts[1].promptId
          /\ g.currentPrompts[i].text = g.currentPrompts[1].text
          /\ InPool(g, g.currentPrompts[i].promptId, g.currentPrompts[i].text)

\* C14: the final round (round >= maxRounds) is a shared round: when its
\* answering phase opens every participant holds exactly one assignment and
\* all assignments carry the same promptId and the same text.
FinalRoundShared ==
    [][RoundOpened' =>
          \A code \in DOMAIN games :
              (games'[code].state = "answering" /\ IsFinalRound(games'[code]))
                  => SharedAssignments(games'[code])]_vars

\* The intermission before the final round 2 has ended in a room of at least
\* three participants.
SharedRoundOfThree ==
    /\ last.kind = "deadline"
    /\ Emitted("start-answering")
    /\ \E code \in DOMAIN games :
          /\ games[code].state = "answering"
          /\ games[code].round = 2
          /\ IsFinalRound(games[code])
          /\ Len(games[code].players) >= 3
          /\ Len(games[code].currentPrompts) >= 3

\* The participants that hold prompt q, and the prompts participant p holds.
HoldersOf(g, q) ==
    {g.currentPrompts[j].playerId :
        j \in {k \in DOMAIN g.currentPrompts : g.currentPrompts[k].promptId = q}}

AssignmentsOf(g, p) == {j \in DOMAIN g.currentPrompts : g.currentPrompts[j].playerId = p}

RotatingPairs(g) ==
    LET n == Len(g.players)
        cp == g.currentPrompts
    IN /\ Len(cp) = 2 * n
       /\ \A i \in 1..n :
             /\ cp[2 * i - 1].playerId = g.players[i].id
             /\ cp[2 * i].playerId = g.players[(i % n) + 1].id
             /\ cp[2 * i].promptId = cp[2 * i - 1].promptId
             /\ cp[2 * i].text = cp[2 * i - 1].text
             /\ InPool(g, cp[2 * i].promptId, cp[2 * i].text)
       /\ \A j \in DOMAIN cp : Cardinality(HoldersOf(g, cp[j].promptId)) = 2
       /\ \A i \in 1..n :
             /\ Cardinality(AssignmentsOf(g, g.players[i].id)) = 2
             /\ Cardinality({cp[j].promptId : j \in AssignmentsOf(g, g.players[i].id)}) = 2

\* C15: when the answering phase of a round before the final one opens,
\* prompt i is assigned to participants i and i+1 (mod N): every drawn prompt
\* is held by exactly two different participants and every participant holds
\* exactly two assignments, with two different promptIds.
RotatingPairAssignment ==
    [][RoundOpened' =>
          \A code \in DOMAIN games :
              (games'[code].state = "answering" /\ ~IsFinalRound(games'[code]))
                  => RotatingPairs(games'[code])]_vars

\* A round is being played: its answering or voting phase is on.
RoundOn(g) == g.state \in {"answering", "voting"}

HoldsAssignment(g, playerId) ==
    \E j \in DOMAIN g.currentPrompts : g.currentPrompts[j].playerId = playerId

\* C16: while a round is played every participant of the session holds at
\* least one assignment of the round, and the assignment list changes only
\* when the answering phase of the next round opens.
AssignmentsCoverAndFrozen ==
    /\ [](\A code \in DOMAIN games :
             RoundOn(games[code]) =>
                 \A i \in DOMAIN games[code].players :
                     HoldsAssignment(games[code], games[code].players[i].id))
    /\ [][\A code \in DOMAIN games :
             games'[code].currentPrompts # games[code].currentPrompts =>
                 /\ games'[code].state = "answering"
                 /\ games'[code].round = games[code].round + 1]_vars

\* ------------------------------------------------- play that is left alone
\* The lobby of Alice and Bob is started; the pages may
\* answer and vote in turn or not at all.  A deadline that is armed fires in
\* the end, a delayed callback that is pending runs in the end, and the
\* PromptSource answers in the end.
InitProgress ==
    /\ armsGameplayTimers \in BOOLEAN
    /\ \E m \in 1..MaxPlayedRounds :
          InitRoom(Room(MinPlayersStandard, m, FALSE), MinPlayersStandard)

ProgressNext ==
    /\ ~crashed
    /\ \/ HostStarts /\ OnProtocol
       \/ PromptSourceDown
       \/ AnswersInTurn /\ OnProtocol
       \/ VotesInTurn /\ OnProtocol
       \/ AnswerDeadline
       \/ VoteDeadline
       \/ IntermissionDeadline
       \/ Timeouts

\* The answer deadline can fire exactly when it is armed.
AnswerArmed == \E code \in DOMAIN games : "answer" \in games[code].timers

\* Weak fairness of each deadline and callback; for the answer deadline it is
\* written out with AnswerArmed in the place of ENABLED.
ProgressSpec ==
    /\ InitProgress
    /\ [][ProgressNext]_vars
    /\ WF_vars(~crashed /\ PromptSourceDown)
    /\ ([]<>(~AnswerArmed \/ crashed) \/ []<><<AnswerDeadline>>_vars)
    /\ WF_vars(~crashed /\ VoteDeadline)
    /\ WF_vars(~crashed /\ IntermissionDeadline)
    /\ WF_vars(~crashed /\ Timeouts)

\* ------------------------------------------------------- several rooms
\* generateRoomCode draws 4 random letters and looks at nothing: the codes it
\* is seen to return, any of them at any create-game.
DrawnCodes == {"AAAA", "BBBB"}

\* Room AAAA is in its lobby with Alice and Bob.  Socket 1 creates further
\* single-round rooms; socket 2 joins rooms as Alice and socket 3 as Bob;
\* each room is started with the PromptSource down and played in turn, and
\* its deadlines and delayed callbacks fire, clients disconnect.
InitRooms ==
    /\ armsGameplayTimers \in BOOLEAN
    /\ InitRoom(Room(2, 1, FALSE), 2)

RoomCreates == \E code \in DrawnCodes : CreateGame(1, code, 1, FALSE)

RoomJoins ==
    \E i \in 1..2, code \in DrawnCodes : JoinGame(RoomSocket(i), code, RoomName(i))

RoomStarts ==
    \E code \in DrawnCodes : \E s \in HostSocket(code) : StartGame(s, code, FirstRandom)

RoomPromptSourceDown ==
    \E code \in DrawnCodes : StartGameResume(code, FetchFailed, FirstRandom)

RoomDeadlines ==
    \E code \in DrawnCodes, timerName \in {"answer", "vote", "intermission"} :
        TimerFire(code, timerName, FirstRandom)

RoomTimeouts == \E code \in DrawnCodes : TimeoutFire(code, FirstRandom)

RoomDisconnects == \E s \in DOMAIN playerSocketMap : Disconnect(s)

RoomsNext ==
    /\ ~crashed
    /\ \/ RoomCreates
       \/ RoomJoins
       \/ RoomStarts /\ OnProtocol
       \/ RoomPromptSourceDown
       \/ AnswersInTurn /\ OnProtocol
       \/ VotesInTurn /\ OnProtocol
       \/ RoomDeadlines
       \/ RoomTimeouts
       \/ RoomDisconnects
    /\ creates' <= MaxRoomsCreates
    /\ nextId' <= MaxRoomsIds + 1

RoomsSpec == InitRooms /\ [][RoomsNext]_vars

\* ------------------------------------------------------ a room fills up
\* Room AAAA with CrowdFrom to MaxPlayers participants in its lobby: clients
\* join it, or ask for a room that does not exist, the host adds and removes
\* bots, clients disconnect.
UnknownRoom == "ZZZZ"

InitCapacity ==
    /\ armsGameplayTimers \in BOOLEAN
    /\ \E n \in CrowdFrom..MaxPlayers : InitRoom(Room(n, DefaultMaxRounds, FALSE), n)

CrowdJoins ==
    \E s \in SocketIds, code \in RoomCodes \cup {UnknownRoom}, name \in Names :
        JoinGame(s, code, name)

HostAddsBot == \E code \in RoomCodes : \E s \in HostSocket(code) : AddBot(s, code)

HostRemovesBot == \E code \in RoomCodes : \E s \in HostSocket(code) : RemoveBot(s, code)

CapacityNext ==
    /\ ~crashed
    /\ \/ CrowdJoins
       \/ HostAddsBot
       \/ HostRemovesBot
       \/ Disconnects
    /\ nextId' <= MaxCrowdIds + 1

CapacitySpec == InitCapacity /\ [][CapacityNext]_vars

\* ------------------------------------------- the roster changes in a round
\* A debug room of Alice and one bot is started with the PromptSource down.
\* Alice answers, the bot's answers arrive, Bob joins from socket 3, the host
\* removes the bot, and the answer deadline fires; the round is followed
\* until its voting opens.
InitRoster == InitLobby(1..MaxRoundsInput, {1})

BobJoins == \E code \in RoomCodes : JoinGame(3, code, "Bob")

RosterNext ==
    /\ ~crashed
    /\ \/ HostStarts /\ OnProtocol
       \/ PromptSourceDown
       \/ Answers /\ OnProtocol
       \/ BotAnswers
       \/ BobJoins
       \/ HostRemovesBot
       \/ AnswerDeadline
    /\ Within'

RosterSpec == InitRoster /\ [][RosterNext]_vars

\* --------------------------------------------- sessions played by bots
\* A debug room of Alice and one bot, or of two bots and no other
\* participant, is started with the PromptSource down and played to its end:
\* the bots' answers arrive, Alice's page answers and votes, the bots vote
\* when a match opens.
InitBots == InitLobby(1..MaxRoundsInput, {1, 2})

BotsNext ==
    /\ ~crashed
    /\ \/ HostStarts /\ OnProtocol
       \/ PromptSourceDown
       \/ AnswersInTurn /\ OnProtocol
       \/ BotAnswers
       \/ VotesInTurn /\ OnProtocol
       \/ IntermissionDeadline
       \/ Timeouts
    /\ Within'

BotsSpec == InitBots /\ [][BotsNext]_vars

\* ------------------------------------------- flat vote counts, tiebreaker
\* The Game class of gameManager.js:1416-1956 scores a round by its raw vote
\* counts, one tally for the whole round, and breaks a tie at the top by a
\* second vote among the tied.  Its game has the fields of the other build
\* and tiebreakerPlayers, kept here as the set of its elements (the code
\* reads its length and its includes).  Every timer is armed in that build.
FlatTopVotes(g) ==
    LET counts == {VoteCount(g, g.votes[v]) : v \in DOMAIN g.votes}
    IN IF counts = {} THEN 0 ELSE CHOOSE n \in counts : \A m \in counts : m <= n

FlatWinners(g) ==
    {g.votes[v] : v \in {w \in DOMAIN g.votes : VoteCount(g, g.votes[w]) = FlatTopVotes(g)}}

StartTiebreaker(g, tiedPlayerIds) ==
    LET g1 == [g EXCEPT !.tiebreakerPlayers = tiedPlayerIds,
                        !.state = "tiebreaker",
                        !.votes = EmptyMap]
    IN Emit(Arm(ClearTimer(g1, "tiebreaker"), "tiebreaker"),
            "tiebreaker-voting", Cardinality(tiedPlayerIds))

FlatCalculateResults(g) ==
    LET winners == FlatWinners(g)
    IN IF Cardinality(winners) = 1
       THEN [AddScore(g, CHOOSE w \in winners : TRUE, FlatTopVotes(g)) EXCEPT !.state = "results"]
       ELSE StartTiebreaker(g, winners)

RECURSIVE FlatAwardLoop(_, _, _)
FlatAwardLoop(g, winners, points) ==
    IF winners = {} THEN g
    ELSE LET w == CHOOSE x \in winners : TRUE
         IN FlatAwardLoop(AddScore(g, w, points), winners \ {w}, points)

CalculateTiebreakerResults(g) ==
    LET winners == FlatWinners(g)
        g1 == IF winners = {} THEN g
              ELSE FlatAwardLoop(g, winners, FlatTopVotes(g) \div Cardinality(winners))
    IN [g1 EXCEPT !.state = "results"]

FlatAllVotesSubmitted(g) ==
    IF g.state = "tiebreaker"
    THEN Cardinality(DOMAIN g.votes) = Cardinality(g.tiebreakerPlayers)
    ELSE Cardinality(DOMAIN g.votes) = Len(g.players)

FlatSubmitVote(g, playerId, voteId) ==
    IF g.state = "tiebreaker" /\ playerId \notin g.tiebreakerPlayers
    THEN g
    ELSE LET g1 == [g EXCEPT !.votes = MapSet(@, playerId, voteId)]
         IN IF FlatAllVotesSubmitted(g1)
            THEN ClearTimer(g1, IF g1.state = "tiebreaker" THEN "tiebreaker" ELSE "vote")
            ELSE g1

\* handleTimerEnd of that build acts for 'intermission' in the intermission
\* and for 'answer' in answering; in every other case, which are all the
\* cases of a voting or tiebreaker phase, it clears the timer and returns.
FlatHandleTimerEnd(g, timerName) == ClearTimer(g, timerName)

\* The submit-vote handler that belongs to that build is not among the
\* sources: the one here stores the vote and, as the specification has it,
\* counts the votes once every eligible voter has voted.
FlatVote(s, code, playerId, voteId) ==
    /\ s \in openSockets
    /\ code \in DOMAIN games
    /\ games[code].state \in {"voting", "tiebreaker"}
    /\ LET g1 == FlatSubmitVote(games[code], playerId, voteId)
           g2 == IF ~FlatAllVotesSubmitted(g1) THEN g1
                 ELSE IF g1.state = "tiebreaker" THEN CalculateTiebreakerResults(g1)
                 ELSE FlatCalculateResults(g1)
       IN Commit(code, g2,
                 <<Ev(NoSocket, "vote-submitted", Len(g1.players) - Cardinality(DOMAIN g1.votes))>>)
    /\ UNCHANGED <<playerSocketMap, openSockets, nextId, armsGameplayTimers, creates, strays>>
    /\ last' = Trigger("submit-vote", s, playerId, voteId, code)

FlatDeadline(code, timerName) ==
    /\ code \in DOMAIN games
    /\ games[code].intervals[timerName] > 0
    /\ timerName \in games[code].timers
    /\ Commit(code, FlatHandleTimerEnd(games[code], timerName), <<>>)
    /\ UNCHANGED <<playerSocketMap, openSockets, nextId, armsGameplayTimers, creates, strays>>
    /\ last' = Trigger("deadline", NoSocket, 0, 0, timerName)

\* A round of FlatPlayers participants whose answers are all in: the voting
\* phase has begun and its deadline is armed.
InitFlat ==
    /\ armsGameplayTimers = TRUE
    /\ LET g0 == Room(FlatPlayers, 1, FALSE)
           g1 == [g0 EXCEPT !.state = "voting",
                            !.round = 1,
                            !.prompts = GenerateFallbackPrompts,
                            !.answers = [i \in 1..FlatPlayers |-> HumanAnswerText]]
           g2 == [Arm(g1, "vote") EXCEPT !.ev = <<>>]
       IN InitRoom([tiebreakerPlayers |-> {}] @@ g2, FlatPlayers)

FlatNext ==
    /\ ~crashed
    /\ \/ \E p \in 1..FlatPlayers, v \in 1..FlatPlayers : FlatVote(RoomSocket(p), "AAAA", p, v)
       \/ \E timerName \in {"vote", "tiebreaker"} : FlatDeadline("AAAA", timerName)

FlatSpec == InitFlat /\ [][FlatNext]_vars

\* ------------------------------------------- properties of match building
\* The handler that has just ended built the match list from the answers the
\* game holds.
MatchListBuilt ==
    /\ Emitted("start-voting")
    /\ \/ last.kind = "submit-answer"
       \/ last.kind = "deadline" /\ last.txt = "answer"

AnswersTo(g, q) == {key \in DOMAIN g.answers : key[2] = q}

\* The places (match, seat) of a match list that show the answer `key`.
PlacesOf(matches, key) ==
    {place \in (DOMAIN matches) \X (1..3) :
        /\ place[2] \in DOMAIN matches[place[1]].cands
        /\ matches[place[1]].promptId = key[2]
        /\ matches[place[1]].cands[place[2]] = key[1]}

PairedMatches(g, matches) ==
    LET pairs == {i \in DOMAIN matches : matches[i].mode = "pairs"}
    IN /\ \A q \in {key[2] : key \in DOMAIN g.answers} :
             Cardinality({i \in pairs : matches[i].promptId = q})
                 = Cardinality(AnswersTo(g, q)) \div 2
       /\ \A i \in pairs :
             /\ Len(matches[i].cands) = 2
             /\ matches[i].cands[1] # matches[i].cands[2]
             /\ <<matches[i].cands[1], matches[i].promptId>> \in DOMAIN g.answers
             /\ <<matches[i].cands[2], matches[i].promptId>> \in DOMAIN g.answers
       /\ \A key \in DOMAIN g.answers :
             Cardinality({place \in PlacesOf(matches, key) : place[1] \in pairs}) <= 1

\* C17: the paired builder groups the answers by promptId and makes
\* floor(k/2) matches of a group of k answers; the two candidates of a match
\* are different participants who answered the match's prompt, no answer is
\* in two matches and the odd answer of a group is in none.
PairsPerPrompt ==
    \A code \in DOMAIN games :
        (MatchListBuilt /\ ~IsFinalRound(games[code]) /\ games[code].state = "voting")
            => PairedMatches(games[code], games[code].votingMatches)

\* Four participants have answered, two of them one prompt and two another,
\* and the list built from these four answers has exactly 2 matches.
TwoPairsOfFour ==
    /\ MatchListBuilt
    /\ \E code \in DOMAIN games :
          LET g == games[code]
          IN /\ ~IsFinalRound(g)
             /\ Cardinality(DOMAIN g.answers) = 4
             /\ Cardinality({key[1] : key \in DOMAIN g.answers}) = 4
             /\ \A key \in DOMAIN g.answers : Cardinality(AnswersTo(g, key[2])) = 2
             /\ Len(g.votingMatches) = 2
             /\ \A i \in DOMAIN g.votingMatches : g.votingMatches[i].mode = "pairs"

\* C18: the triadic builder groups the answers by promptId and cuts every
\* group into chunks of 3 in order; each chunk of 3 and a last chunk of 2 is
\* one match, a last chunk of 1 is none, and no answer is in two matches.
TriadicMatches(g, matches) ==
    /\ \A q \in {key[2] : key \in DOMAIN g.answers} :
          LET k == Cardinality(AnswersTo(g, q))
              ofPrompt == {i \in DOMAIN matches : matches[i].promptId = q}
          IN /\ Cardinality({i \in ofPrompt : Len(matches[i].cands) = 3}) = k \div 3
             /\ Cardinality({i \in ofPrompt : Len(matches[i].cands) = 2})
                   = (IF k % 3 = 2 THEN 1 ELSE 0)
             /\ \A i \in ofPrompt : Len(matches[i].cands) \in {2, 3}
    /\ \A key \in DOMAIN g.answers : Cardinality(PlacesOf(matches, key)) <= 1

ChunksOfThree ==
    \A code \in DOMAIN games : \A rnd \in Randoms :
        LET built == CreateThriplesVoting(games[code], rnd)
        IN ~built.threw => TriadicMatches(games[code], built.matches)

RefusedTo(s) ==
    /\ Len(out') = 1
    /\ out'[1].to = s
    /\ out'[1].type = "error"
    /\ games' = games
    /\ playerSocketMap' = playerSocketMap
    /\ ~crashed'

\* C20: a room never has more than 8 participants, humans and bots
\* together; a join-game and an add-bot sent to a room that has 8 report an
\* error and leave the participants and the connection mapping as they were,
\* and so does a join-game with a room code that no game has.
CapacityOfEight ==
    /\ [](\A code \in DOMAIN games : Len(games[code].players) <= MaxPlayers)
    /\ [][/\ \A s \in SocketIds, code \in DOMAIN games, name \in Names :
               (Len(games[code].players) = MaxPlayers /\ JoinGame(s, code, name))
                   => RefusedTo(s)
          /\ \A code \in DOMAIN games : \A s \in HostSocket(code) :
               (Len(games[code].players) = MaxPlayers /\ AddBot(s, code))
                   => RefusedTo(s)
          /\ \A s \in SocketIds, name \in Names :
               (UnknownRoom \notin DOMAIN games /\ JoinGame(s, UnknownRoom, name))
                   => RefusedTo(s)]_vars

\* A join-game has just been refused by a room of 8 participants, bots among
\* them.
JoinRefusedByFullRoom ==
    /\ last.kind = "join-game"
    /\ out = <<Ev(last.from, "error", "Game is full")>>
    /\ \E code \in DOMAIN games :
          /\ Len(games[code].players) = MaxPlayers
          /\ \E i \in DOMAIN games[code].players : games[code].players[i].isBot

\* ------------------------------------------------------ properties of rooms
\* C21: a room code leads to the same game for as long as the process runs:
\* a create-game never replaces, resets or removes a game the registry
\* holds.
CreateKeepsGames ==
    [][\A code \in DOMAIN games :
          /\ code \in DOMAIN games'
          /\ last'.kind = "create-game" => games'[code] = games[code]]_vars

\* C22: finished is the last phase: once a game is finished no command, no
\* deadline and no delayed callback changes its phase or its round.
FinishedIsTerminal ==
    [][\A code \in DOMAIN games :
          games[code].state = "finished" =>
              /\ code \in DOMAIN games'
              /\ games'[code].state = "finished"
              /\ games'[code].round = games[code].round]_vars

\* C23: no two connected participants of a room have the same name.
UniqueConnectedNames ==
    \A code \in DOMAIN games :
        \A i, j \in DOMAIN games[code].players :
            (/\ i # j
             /\ games[code].players[i].isConnected
             /\ games[code].players[j].isConnected)
                => games[code].players[i].name # games[code].players[j].name

\* C24: a bot is added or removed only at the command of the room's host
\* socket and only in a debug room; from another socket, or in a room that is
\* not a debug room, add-bot and remove-bot report an error to the sender and
\* leave the participants as they were.
BotsOnlyByHostInDebug ==
    [][last'.kind \in {"add-bot", "remove-bot"} =>
          \A code \in DOMAIN games :
              (last'.txt = code
               /\ (last'.from # games[code].hostSocketId \/ ~games[code].debugMode))
                  => /\ games'[code].players = games[code].players
                     /\ \E i \in DOMAIN out' :
                           out'[i].type = "error" /\ out'[i].to = last'.from]_vars

\* C27: in answering, a submit-answer opens the voting only when after it
\* every (participant, prompt) pair of the round's assignments has an answer.
VotingWhenAssignmentsAnswered ==
    [][last'.kind = "submit-answer" =>
          \A code \in DOMAIN games :
              (games[code].state = "answering" /\ games'[code].state = "voting")
                  => \A j \in DOMAIN games[code].currentPrompts :
                        <<games[code].currentPrompts[j].playerId,
                          games[code].currentPrompts[j].promptId>>
                            \in DOMAIN games'[code].answers]_vars

\* The step is a handler that serves room `code`: a command that names the
\* room, the answer of the PromptSource to its start, one of its deadlines or
\* delayed callbacks, or the disconnect of a socket bound to it.
RoutedTo(code) ==
    \/ /\ last'.kind \in {"create-game", "start-game", "submit-answer", "submit-vote"}
       /\ last'.txt = code
    \/ \E i \in 1..2 : JoinGame(RoomSocket(i), code, RoomName(i))
    \/ StartGameResume(code, FetchFailed, FirstRandom)
    \/ \E timerName \in {"answer", "vote", "intermission"} :
          TimerFire(code, timerName, FirstRandom)
    \/ TimeoutFire(code, FirstRandom)
    \/ \E s \in DOMAIN playerSocketMap :
          playerSocketMap[s].roomCode = code /\ Disconnect(s)

\* C25: rooms are isolated: a handler that serves one room leaves every
\* other room's game as it was: phase, round, participants, scores, answers,
\* votes, matches, deadlines and delayed callbacks.
RoomsIsolated ==
    [][\A code \in DrawnCodes :
          RoutedTo(code) =>
              \A other \in DOMAIN games \ {code} :
                  other \in DOMAIN games' /\ games'[other] = games[other]]_vars

\* Two rooms are in play, and the handler that has just ended served an
\* answer or a vote of one of them.
TwoRoomsInPlay ==
    /\ last.kind \in {"submit-answer", "submit-vote"}
    /\ DOMAIN games = DrawnCodes
    /\ \A code \in DOMAIN games : games[code].state \in {"answering", "voting"}
    /\ \E code \in DOMAIN games : games[code].state = "voting"

\* C26: rounds go on by themselves: a game that has been started reaches
\* finished, whether the participants answer and vote or not.
StartedGameFinishes ==
    \A code \in RoomCodes :
        (code \in DOMAIN games /\ games[code].state \in {"answering", "voting", "intermission"})
            ~> (code \in DOMAIN games /\ games[code].state = "finished")

\* The events of one type among those the last handler emitted.
EmittedTimes(type) == Cardinality({i \in DOMAIN out : out[i].type = type})

\* C28: when the answer deadline fires in answering, then at the end of its
\* handler every (participant, prompt) pair of the round's assignments has an
\* answer, the pairs that had none hold the text for no answer, the answers
\* given before are as they were, and the game is in voting with the match
\* list built once; also after a bot was removed or a participant joined in
\* the round.
AnswerDeadlineFills ==
    [][(last'.kind = "deadline" /\ last'.txt = "answer") =>
          \A code \in DOMAIN games :
              LET g == games[code]
                  h == games'[code]
                  assigned == {<<g.currentPrompts[j].playerId, g.currentPrompts[j].promptId>> :
                                  j \in DOMAIN g.currentPrompts}
              IN g.state = "answering" =>
                    /\ assigned \subseteq DOMAIN h.answers
                    /\ \A key \in assigned :
                          h.answers[key] = (IF key \in DOMAIN g.answers THEN g.answers[key]
                                            ELSE NoAnswerText)
                    /\ h.state = "voting"
                    /\ EmittedTimes("start-voting")' = 1]_vars

\* C29: before the vote deadline the tally of the open match is processed
\* exactly when every connected participant has a vote in it: a vote
\* completes the match if and only if after it no connected participant is
\* without a vote, whatever the disconnected ones have done.
TallyWhenConnectedVoted ==
    [][last'.kind = "submit-vote" =>
          \A code \in DOMAIN games :
              (last'.txt = code /\ games[code].state = "voting" /\ games[code].timeouts = <<>>)
                  => (ResultsComputed'
                        <=> \A i \in DOMAIN games'[code].players :
                               games'[code].players[i].isConnected
                                   => games'[code].players[i].id \in DOMAIN games'[code].votes)]_vars

BotIds(g) == {g.players[i].id : i \in {j \in DOMAIN g.players : g.players[j].isBot}}

\* C30: the matches of a round are processed one at a time in list order:
\* within a round the current match index changes only by +1, only after the
\* results of the current match were computed, and never past the end of the
\* list; a match that is opened has no advance pending that would pass over
\* it and starts with a tally holding no participant's vote; the round's
\* aggregation is announced only by the advance from the last match.
MatchesOneAtATime ==
    [][\A code \in DOMAIN games \cap DOMAIN games' :
          LET g == games[code]
              h == games'[code]
          IN /\ (g.state = "voting" /\ h.votingMatches = g.votingMatches) =>
                   /\ h.currentMatchIndex \in {g.currentMatchIndex, g.currentMatchIndex + 1}
                   /\ h.currentMatchIndex <= Len(h.votingMatches)
                   /\ h.currentMatchIndex # g.currentMatchIndex =>
                         (ResultsShown(g) /\ ~ResultsShown(h))
                   /\ Emitted("show-results")' =>
                         /\ g.currentMatchIndex = Len(g.votingMatches) - 1
                         /\ h.currentMatchIndex = Len(g.votingMatches)
                         /\ ResultsShown(g)
             /\ (h.state = "voting" /\ Emitted("start-voting")') =>
                   /\ h.currentMatchIndex < Len(h.votingMatches)
                   /\ DOMAIN h.votes \subseteq BotIds(h)
                   /\ ~ResultsShown(h)]_vars

\* C31: when the callback that ends a round's aggregation runs, the session
\* becomes finished if and only if round >= maxRounds, and otherwise enters
\* the intermission with the intermission deadline armed; the round number
\* never exceeds maxRounds, so no round after maxRounds is played.
RoundEndDecides ==
    [][\A code \in DOMAIN games \cap DOMAIN games' :
          LET g == games[code]
              h == games'[code]
          IN /\ h.round <= h.maxRounds
             /\ (last'.kind = "timeout" /\ last'.txt = "nextRound") =>
                   /\ h.state = "finished" <=> g.round >= g.maxRounds
                   /\ g.round < g.maxRounds =>
                         (h.state = "intermission" /\ "intermission" \in h.timers)]_vars

\* The last round of a two-round game has ended: the first ended in an
\* intermission, this one in the end of the game.
SecondRoundEndedGame ==
    /\ last.kind = "timeout"
    /\ last.txt = "nextRound"
    /\ \E code \in DOMAIN games :
          /\ games[code].state = "finished"
          /\ games[code].round = 2
          /\ games[code].maxRounds = 2

\* C32: the round number is incremented on the step from intermission to
\* answering: entering the intermission leaves the round number at the round
\* just completed, and the intermission deadline's handler increments it,
\* enters answering with the answers cleared and the answer deadline armed.
RoundIncrementedAfterIntermission ==
    [][\A code \in DOMAIN games \cap DOMAIN games' :
          LET g == games[code]
              h == games'[code]
          IN /\ (g.state # "intermission" /\ h.state = "intermission") => h.round = g.round
             /\ (last'.kind = "deadline" /\ last'.txt = "intermission"
                                         /\ g.state = "intermission") =>
                   /\ h.round = g.round + 1
                   /\ h.state = "answering"
                   /\ DOMAIN h.answers \subseteq BotIds(h)
                   /\ "answer" \in h.timers]_vars

\* C33: at most one deadline is armed per name: the interval callbacks that
\* have not been cleared are exactly those of the entries of timers, one per
\* name, so that a deadline replaced by startTimer or removed by clearTimer
\* has no callback left to fire; and the handler of a deadline that fires
\* removes it, so that it does not fire again unless it is armed anew.
LiveIntervalsAreEntries(g) ==
    \A n \in TimerNames : g.intervals[n] = (IF n \in g.timers THEN 1 ELSE 0)

OneDeadlinePerName ==
    [][\A code \in DOMAIN games \cap DOMAIN games' :
          LET g == games[code]
              h == games'[code]
          IN /\ LiveIntervalsAreEntries(g)
             /\ LiveIntervalsAreEntries(h)
             /\ last'.kind = "deadline" =>
                   (last'.txt \in g.timers /\ last'.txt \notin h.timers)]_vars

\* The host has sent start again during the first answering phase, where the
\* answer deadline was armed: startTimer has replaced an armed deadline.
AnswerDeadlineRearmed ==
    /\ last.kind = "start-game"
    /\ strays = 1
    /\ \E code \in DOMAIN games :
          /\ games[code].state = "answering"
          /\ games[code].votingMatches = <<>>
          /\ "answer" \in games[code].timers

\* C34: the PromptSource is called at most once per session, by the first
\* start of the lobby: a start calls it only while the session has never been
\* started, its pool is empty and no call is under way; every later start
\* and round uses the pool already loaded.
PromptSourceCalledOnce ==
    [][\A code \in DOMAIN games \cap DOMAIN games' :
          LET g == games[code]
              h == games'[code]
          IN h.fetching > g.fetching =>
                /\ g.fetching = 0
                /\ g.prompts = <<>>
                /\ g.round = 0
                /\ g.state = "waiting"]_vars

\* C35: whatever the PromptSource answers, once a start has completed the
\* pool holds at least 5 and at most 50 prompts, each non-empty, shorter than
\* 100 characters and ending with the blank marker, and the session is in its
\* first answering phase: no answer of the PromptSource makes the start fail.
PoolUsable(g) ==
    /\ Len(g.prompts) >= MinValidPrompts
    /\ Len(g.prompts) <= MaxKeptPrompts
    /\ \A i \in DOMAIN g.prompts : ValidPromptText(g.prompts[i].text)

PoolUsableAfterStart ==
    /\ \A code \in DOMAIN games : games[code].prompts = <<>> \/ PoolUsable(games[code])
    /\ last.kind = "prompts-loaded" =>
          /\ ~crashed
          /\ \A code \in DOMAIN games :
                /\ PoolUsable(games[code])
                /\ games[code].state = "answering"
                /\ games[code].round = 1

\* The PromptSource has answered with a list of which fewer than 5 strings
\* are valid, and the game has started on the built-in prompts.
StartedOnFallbackAfterShortList ==
    /\ last.kind = "prompts-loaded"
    /\ last.txt = "list"
    /\ \E code \in DOMAIN games :
          /\ games[code].state = "answering"
          /\ games[code].prompts = GenerateFallbackPrompts

\* C37: in every reachable state of a session with maxRounds >= 1 the round
\* number is between 0 and maxRounds, it is 0 exactly while the session has
\* not been started (it waits in the lobby), and the current match index is
\* between 0 and the length of the match list.
CountersInRange ==
    \A code \in DOMAIN games :
        LET g == games[code]
        IN g.maxRounds >= 1 =>
              /\ 0 <= g.round
              /\ g.round <= g.maxRounds
              /\ g.round = 0 <=> g.state = "waiting"
              /\ 0 <= g.currentMatchIndex
              /\ g.currentMatchIndex <= Len(g.votingMatches)

\* C38: no round is skipped: the round number changes only by a start, which
\* sets it to 1, or by +1 at the end of the aggregation of a round whose
\* voting phase was played, and the game ends only from the voting phase of
\* its last round, so that every round has its own answering and voting
\* phase.
NoRoundSkipped ==
    [][\A code \in DOMAIN games \cap DOMAIN games' :
          LET g == games[code]
              h == games'[code]
          IN /\ h.round # g.round =>
                   \/ g.round = 0 /\ h.round = 1 /\ h.state = "answering"
                   \/ /\ h.round = g.round + 1
                      /\ g.state = "voting"
                      /\ h.state = "intermission"
             /\ (h.state = "finished" /\ g.state # "finished") => g.state = "voting"]_vars

\* C40: the connection registry agrees with the sessions: every participant
\* that is no bot and is connected is the target of exactly one entry of
\* playerSocketMap, and every entry names a room that exists and a
\* participant of that room that is connected.
EntriesOf(code, playerId) ==
    {s \in DOMAIN playerSocketMap :
        playerSocketMap[s].roomCode = code /\ playerSocketMap[s].playerId = playerId}

RegistryConsistent ==
    /\ \A code \in DOMAIN games :
          \A i \in DOMAIN games[code].players :
              LET p == games[code].players[i]
              IN (~p.isBot /\ p.isConnected) => Cardinality(EntriesOf(code, p.id)) = 1
    /\ \A s \in DOMAIN playerSocketMap :
          /\ playerSocketMap[s].roomCode \in DOMAIN games
          /\ EligibleVoter(games[playerSocketMap[s].roomCode], playerSocketMap[s].playerId)

\* C39: for every match the notification that its voting has started is
\* emitted before the notification of its results: a handler that emits the
\* results of a match has emitted the start of that match before them, or
\* the match was opened by an earlier handler.
VotingStartedBeforeResults ==
    [][\A i \in DOMAIN out' :
          out'[i].type = "match-results" =>
             \/ \E j \in 1..(i - 1) :
                   out'[j].type = "start-voting" /\ out'[j].arg = out'[i].arg
             \/ \E code \in DOMAIN games :
                   /\ games[code].state = "voting"
                   /\ games[code].currentMatchIndex = out'[i].arg]_vars

\* C36: with flat vote counts the tiebreaker phase is entered only when more
\* than one candidate shares the top vote count; in it, a vote of anyone but
\* a tied candidate's author changes nothing; and it is left when all tied
\* authors have voted and when the tiebreaker deadline elapses.
TiebreakerEnteredAndLeft ==
    [][\A code \in DOMAIN games \cap DOMAIN games' :
          LET g == games[code]
              h == games'[code]
          IN /\ (g.state # "tiebreaker" /\ h.state = "tiebreaker") =>
                   Cardinality(h.tiebreakerPlayers) > 1
             /\ (g.state = "tiebreaker" /\ last'.kind = "submit-vote"
                                        /\ last'.a \notin g.tiebreakerPlayers) => h = g
             /\ (g.state = "tiebreaker" /\ last'.kind = "submit-vote"
                    /\ g.tiebreakerPlayers \subseteq DOMAIN h.votes \cup {last'.a}
                    /\ last'.a \in g.tiebreakerPlayers) => h.state # "tiebreaker"
             /\ (g.state = "tiebreaker" /\ last'.kind = "deadline"
                                        /\ last'.txt = "tiebreaker") => h.state # "tiebreaker"]_vars

====
